---- MODULE Spec2Model ----
(***************************************************************************)
(* ZONTEM: zonal temperature averages.  A model of the series-combination *)
(* and zonal-averaging engine: series.combine (the Series Combiner),      *)
(* series.monthly_anomalies and zontem.annual_anomaly (the Anomaly        *)
(* Calculator), zontem.split (the Zone Splitter) and zontem.zontem /      *)
(* zontem.combine_stations (the Aggregation Pipeline).                    *)
(* giss_data.Series (the Series store) is modelled with the calls made   *)
(* on one instance.  SpecParallel runs the combine_stations calls of      *)
(* the zones with their steps interleaved, over lists held as objects.    *)
(*                                                                         *)
(* Python floats are modelled as exact rationals <<num, den>> in lowest   *)
(* terms with den > 0; Python lists are sequences, so the list element    *)
(* with Python index i is element i + 1 here.                             *)
(***************************************************************************)
EXTENDS Integers, Sequences, FiniteSets, TLC

VARIABLES
    \* ---- one call of series.combine(composite, weight, new, new_weight, min_overlap)
    composite,          \* the *composite* list, updated in place
    weight,             \* the *weight* list, updated in place
    new,                \* the *new* list
    new_weight,         \* a scalar or an array of weights
    min_overlap,        \* the overlap threshold
    data_combined,      \* the returned list of 12 counts
    bias,               \* the bias computed for each month reached by the loop
    composite_before,   \* composite as it was when the call was made
    weight_before,      \* weight as it was when the call was made
    pc,                 \* "idle" | "call" | "returned" | "raised"
    exc,                \* the exception that ended the call, or "none"
    \* ---- one call of zontem.annual_anomaly(monthly)
    monthly,            \* the monthly series
    result,             \* the returned list of annual anomalies
    apc,                \* "idle" | "call" | "returned"
    \* ---- the process that calls zontem.zontem(input, n_zones)
    max_series_length,  \* the module global of zontem.py
    input,              \* the stations of the running call
    n_zones,            \* its number of zones
    split_i,            \* split: the number of stations the loop has consumed
    zone,               \* split: the list of n_zones lists of stations
    zonal_average,      \* zontem: the results map() has collected so far
    stations_iter,      \* combine_stations: the sorted stations not yet folded
    combined,           \* combine_stations: the composite
    combined_weight,    \* combine_stations: its weights
    global_average,     \* zontem: the global composite
    global_annual_average,  \* zontem: the first returned value
    zonal_annual_average,   \* zontem: the second returned value
    zpc,                \* where the call is
    zexc,               \* the exception that ended the call, or "none"
    \* ---- one giss_data.Series and the calls made on it
    _first_month,       \* Series._first_month
    _series,            \* Series._series
    _good_count,        \* Series._good_count: <<>> for None, <<n>> for n
    series_op,          \* the last call: "init" | "add_year" | "good_count"
                        \* | "_get_a_month" | "get_a_year", or "idle"
    series_year,        \* its argument year or month
    series_data,        \* its argument data
    series_result,      \* what it returned
    series_exc,         \* the exception that ended it, or "none"
    series_calls,       \* the number of calls that can change the object
    \* ---- the lists zontem and combine_stations hold, as objects
    heap,               \* the list objects: heap[r] is what list r holds
    heap_M,             \* max_series_length
    zone_refs,          \* split's zones; a station's series is a list r
    zonal_refs,         \* the results map() has collected so far
    iter_refs,          \* combine_stations: the sorted stations not yet folded
    combined_ref,       \* combine_stations: the list that combined names
    weight_list,        \* combine_stations: combined_weight
    global_ref,         \* zontem: the global composite
    held,               \* what each list held when it was handed over
    hpc,                \* where the call is
    \* ---- one call of series.monthly_anomalies
    ma_data,            \* the argument data
    ma_reference_period,    \* the argument reference_period, <<>> for None
    ma_base_year,       \* the argument base_year
    ma_monthly_mean,    \* the first returned value
    ma_monthly_anom,    \* the second returned value
    ma_pc,              \* "idle" | "call" | "returned"
    \* ---- the zones reduced by combine_stations calls that run interleaved
    par_heap,           \* the list objects: par_heap[r] is what list r holds
    par_M,              \* max_series_length
    par_zones,          \* split's zones; a station's series is a list r
    par_worker,         \* par_worker[z]: the combine_stations call of zone z
    log_file            \* the messages written by log()

combineVars == <<composite, weight, new, new_weight, min_overlap, data_combined,
                 bias, composite_before, weight_before, pc, exc>>

annualVars == <<monthly, result, apc>>

zontemVars == <<max_series_length, input, n_zones, split_i, zone, zonal_average,
                stations_iter, combined, combined_weight, global_average,
                global_annual_average, zonal_annual_average, zpc, zexc>>

seriesVars == <<_first_month, _series, _good_count, series_op, series_year,
                series_data, series_result, series_exc, series_calls>>

\* The variables of the components that were added to the model later.
storageVars == <<heap, heap_M, zone_refs, zonal_refs, iter_refs, combined_ref,
                 weight_list, global_ref, held, hpc>>

anomaliesVars == <<ma_data, ma_reference_period, ma_base_year, ma_monthly_mean,
                   ma_monthly_anom, ma_pc>>

parallelVars == <<par_heap, par_M, par_zones, par_worker, log_file>>

restVars == <<seriesVars, storageVars, anomaliesVars, parallelVars>>

vars == <<combineVars, annualVars, zontemVars, restVars>>

-----------------------------------------------------------------------------
(* Bounds of the model *)

\* Number of years (12-month blocks) of the series handed to series.combine.
MaxYears == 2

\* Number of years of the long station records given to zontem.
LongYears == 21

\* Largest number of stations in one input of zontem.
MaxStations == 3

\* Largest n_zones.
MaxZones == 3

\* Largest number of stations in one input of split, when run on its own.
MaxSplitStations == 2

\* Number of calls of add_year and good_count made on a Series.
MaxCalls == 3

\* The last of the years 0, 1, ... that add_year is called with.
MaxSeriesYear == 3

\* Number of years of the series handed to series.monthly_anomalies.
AnomalyYears == 3

-----------------------------------------------------------------------------
(* Float arithmetic, exact *)

Abs(n) == IF n < 0 THEN -n ELSE n

Min(a, b) == IF a < b THEN a ELSE b

Max(a, b) == IF a > b THEN a ELSE b

RECURSIVE GCD(_, _)
GCD(a, b) == IF b = 0 THEN a ELSE GCD(b, a % b)

\* The float n/d (d # 0), in lowest terms.
Rat(n, d) ==
    LET s == IF d < 0 THEN -1 ELSE 1
        g == GCD(Abs(n), Abs(d))
    IN  <<(s * n) \div g, (s * d) \div g>>

Float(n) == <<n, 1>>

RAdd(a, b) == Rat(a[1] * b[2] + b[1] * a[2], a[2] * b[2])

RSub(a, b) == Rat(a[1] * b[2] - b[1] * a[2], a[2] * b[2])

RMul(a, b) == Rat(a[1] * b[1], a[2] * b[2])

\* a / b for b # 0.
RDiv(a, b) == Rat(a[1] * b[2], a[2] * b[1])

RNeg(a) == <<-a[1], a[2]>>

\* Python's None (no float has denominator 0).
None == <<0, 0>>

-----------------------------------------------------------------------------
(* data.py *)

MISSING == 9999

invalid(v) == v = Float(MISSING)

valid(v) == ~invalid(v)

-----------------------------------------------------------------------------
(* The parts of the state a specification does not use *)

\* No call of series.combine is under way.
CombineIdle ==
    /\ composite = <<>>
    /\ weight = <<>>
    /\ new = <<>>
    /\ new_weight = [kind |-> "scalar", v |-> Float(1)]
    /\ min_overlap = 0
    /\ data_combined = <<>>
    /\ bias = <<>>
    /\ composite_before = <<>>
    /\ weight_before = <<>>
    /\ pc = "idle"
    /\ exc = "none"

\* No call of annual_anomaly is under way.
AnnualIdle ==
    /\ monthly = <<>>
    /\ result = <<>>
    /\ apc = "idle"

\* zontem.py has been imported and zontem has not been called.
ZontemIdle ==
    /\ max_series_length = 0
    /\ input = <<>>
    /\ n_zones = 0
    /\ split_i = 0
    /\ zone = <<>>
    /\ zonal_average = <<>>
    /\ stations_iter = <<>>
    /\ combined = <<>>
    /\ combined_weight = <<>>
    /\ global_average = <<>>
    /\ global_annual_average = <<>>
    /\ zonal_annual_average = <<>>
    /\ zpc = "idle"
    /\ zexc = "none"

\* sys.maxint, of a build with 32-bit integers.
sys_maxint == 2147483647

\* No Series has been made.
SeriesIdle ==
    /\ _first_month = sys_maxint
    /\ _series = <<>>
    /\ _good_count = <<>>
    /\ series_op = "idle"
    /\ series_year = 0
    /\ series_data = <<>>
    /\ series_result = <<>>
    /\ series_exc = "none"
    /\ series_calls = 0

\* The components that were added to the model later are not in use.
\* zontem has not been called, with its lists seen as objects.
StorageIdle ==
    /\ heap = <<>>
    /\ heap_M = 0
    /\ zone_refs = <<>>
    /\ zonal_refs = <<>>
    /\ iter_refs = <<>>
    /\ combined_ref = 0
    /\ weight_list = <<>>
    /\ global_ref = <<>>
    /\ held = <<>>
    /\ hpc = "idle"

\* No call of monthly_anomalies is under way.
AnomaliesIdle ==
    /\ ma_data = <<>>
    /\ ma_reference_period = <<>>
    /\ ma_base_year = 0
    /\ ma_monthly_mean = <<>>
    /\ ma_monthly_anom = <<>>
    /\ ma_pc = "idle"

\* No zones are being reduced side by side.
ParallelIdle ==
    /\ par_heap = <<>>
    /\ par_M = 0
    /\ par_zones = <<>>
    /\ par_worker = <<>>
    /\ log_file = <<>>

RestIdle == SeriesIdle /\ StorageIdle /\ AnomaliesIdle /\ ParallelIdle

-----------------------------------------------------------------------------
(* series.py: combine *)

\* The extended slice s[m::12].
Track(s, m) ==
    [k \in 1..((Len(s) - m + 11) \div 12) |-> s[m + 12 * (k - 1) + 1]]

\* Sum of the s[k], k = lo..hi, for which both ps[k] and qs[k] are valid,
\* starting from 0.0.  The floats are exact here, so the sum of a range is the
\* sum of its two halves; halving keeps the evaluation shallow for long
\* tracks.
RECURSIVE SumValid(_, _, _, _, _)
SumValid(s, ps, qs, lo, hi) ==
    IF lo > hi THEN Float(0)
    ELSE IF lo = hi
         THEN IF invalid(ps[lo]) \/ invalid(qs[lo]) THEN Float(0) ELSE s[lo]
         ELSE RAdd(SumValid(s, ps, qs, lo, (lo + hi) \div 2),
                   SumValid(s, ps, qs, (lo + hi) \div 2 + 1, hi))

\* sum_p - sum_q of bias_overlap, as the code subtracts them.
\* (A sign slip: sum_q - sum_p.)
bias_difference_swapped(sum_p, sum_q) == RSub(sum_q, sum_p)

bias_difference(sum_p, sum_q) == RSub(sum_p, sum_q)

\* The (bias, overlap) pair bias_overlap returns for the sums and the count.
bias_of(sum_p, sum_q, overlap) ==
    IF overlap = 0
    THEN <<None, overlap>>
    ELSE <<RDiv(bias_difference(sum_p, sum_q), Float(overlap)), overlap>>

\* bias_overlap(ps, qs): the pair <<bias, overlap>>.
bias_overlap(ps, qs) ==
    LET n == Min(Len(ps), Len(qs))
    IN  bias_of(SumValid(ps, ps, qs, 1, n), SumValid(qs, ps, qs, 1, n),
                Cardinality({k \in 1..n : ~(invalid(ps[k]) \/ invalid(qs[k]))}))

\* ensure_array(exemplar, item): an array is returned unchanged, a scalar
\* becomes an array of the exemplar's length.
ensure_array(exemplar, item) ==
    IF item.kind = "array" THEN item.a
    ELSE [i \in 1..Len(exemplar) |-> item.v]

\* The test that skips a month: "if overlap < min_overlap: continue".
\* (An off-by-one slip: <=.)
insufficient_overlap_le(overlap, min_ov) == overlap <= min_ov

\* (A slip: any overlap is taken to be enough.)
insufficient_overlap_none(overlap, min_ov) == overlap < 1

insufficient_overlap(overlap, min_ov) == overlap < min_ov

\* The test that skips a datum of new: "if invalid(new[i]): continue".
\* (A slip: no datum is skipped.)
skip_datum_never(v) == FALSE

skip_datum(v) == invalid(v)

\* The update of the weight: "weight[i] = new_month_weight".
\* (A slip: weight is only updated where composite held data.)
updated_weight_overlap_only(c, w, new_month_weight) ==
    IF invalid(c) THEN w ELSE new_month_weight

updated_weight(c, w, new_month_weight) == new_month_weight

\* The exception raised by the inner loop's statements for Python index i
\* (a datum that is not skipped), or "none": lines 49 to 51 index weight,
\* new_weight and composite, add bias to a float and divide by
\* new_month_weight.
datum_exception(c, w, i, nw, bias_) ==
    IF i + 1 > Len(w) \/ i + 1 > Len(nw) THEN "IndexError"
    ELSE IF i + 1 > Len(c) THEN "IndexError"
    ELSE IF bias_ = None THEN "TypeError"
    ELSE IF RAdd(w[i + 1], nw[i + 1])[1] = 0 THEN "ZeroDivisionError"
    ELSE "none"

\* The value line 50 assigns to composite[i].
combined_datum(c, w, i, new_, nw, bias_) ==
    RDiv(RAdd(RMul(w[i + 1], c[i + 1]),
              RMul(nw[i + 1], RAdd(new_[i + 1], bias_))),
         RAdd(w[i + 1], nw[i + 1]))

\* "for i in range(m, len(new), 12)": the Python indices of month m whose
\* datum of new is not skipped.
track_indices(m, new_) ==
    {i \in 0..(Len(new_) - 1) : i % 12 = m /\ ~skip_datum(new_[i + 1])}

\* The list with the items f[1], ..., f[n], written out.
List(f) == f \o <<>>

\* What the inner loop has written when it ends: it wrote the indices in
\* done and ended with exception exc_ ("none": it ran to its end).
track_written(st, m, new_, nw, bias_, done, exc_) ==
    [composite |->
        List([k \in 1..Len(st.composite) |->
                IF (k - 1) \in done
                THEN combined_datum(st.composite, st.weight, k - 1, new_, nw, bias_)
                ELSE st.composite[k]]),
     weight |->
        List([k \in 1..Len(st.weight) |->
                IF (k - 1) \in done
                THEN updated_weight(st.composite[k], st.weight[k],
                                    RAdd(st.weight[k], nw[k]))
                ELSE st.weight[k]]),
     data_combined |-> [st.data_combined EXCEPT ![m + 1] = @ + Cardinality(done)],
     bias |-> st.bias,
     exc |-> exc_]

\* The iterations before the first one that raises, stop (len(new) if none
\* does).
track_until(st, m, new_, nw, bias_, todo, stop) ==
    track_written(st, m, new_, nw, bias_, {i \in todo : i < stop},
                  IF stop >= Len(new_) THEN "none"
                  ELSE datum_exception(st.composite, st.weight, stop, nw, bias_))

\* The inner loop of combine for month m.  The iterations are run in
\* increasing i and each reads and writes index i alone, so the loop writes
\* every index before the first one that raises and nothing after.
\* st is the frame: composite, weight, data_combined, bias, exc.
combine_track(st, m, new_, nw, bias_) ==
    LET todo == track_indices(m, new_)
        bad == {i \in todo :
                  datum_exception(st.composite, st.weight, i, nw, bias_) # "none"}
    IN  track_until(st, m, new_, nw, bias_, todo,
                    IF bad = {} THEN Len(new_)
                    ELSE CHOOSE i \in bad : \A j \in bad : i <= j)

\* The body of "for m in range(12)" for one month, bo being the pair
\* bias_overlap returned for it.
combine_month_body(st, m, new_, nw, min_ov, bo) ==
    IF insufficient_overlap(bo[2], min_ov)
    THEN [st EXCEPT !.bias[m + 1] = bo[1]]
    ELSE combine_track([st EXCEPT !.bias[m + 1] = bo[1]], m, new_, nw, bo[1])

combine_month(st, m, new_, nw, min_ov) ==
    IF st.exc # "none" THEN st
    ELSE combine_month_body(st, m, new_, nw, min_ov,
                            bias_overlap(Track(st.composite, m), Track(new_, m)))

RECURSIVE combine_months(_, _, _, _, _)
combine_months(st, m, new_, nw, min_ov) ==
    IF m >= 12 THEN st
    ELSE CHOOSE r \in {combine_months(st1, m + 1, new_, nw, min_ov) :
                          st1 \in {combine_month(st, m, new_, nw, min_ov)}} : TRUE

\* combine(composite, weight, new, new_weight, min_overlap): the frame when
\* the call ends; exc = "none" when it returns data_combined.
combine(c, w, new_, new_weight_, min_ov) ==
    LET nw == ensure_array(w, new_weight_)
        st0 == [composite |-> c, weight |-> w,
                data_combined |-> [m \in 1..12 |-> 0],
                bias |-> [m \in 1..12 |-> None],
                exc |-> "none"]
    IN  combine_months(st0, 0, new_, nw, min_ov)

-----------------------------------------------------------------------------
(* The arguments series.combine is called with *)

\* Values of one datum: the sentinel and two temperatures.
DatumValues == {Float(MISSING), Float(1), Float(3)}

\* The data of one calendar month over the years.
TrackValues == [1..MaxYears -> DatumValues]

\* A series whose January track is t0 and whose other months hold r.
MakeSeries(t0, r) ==
    [i \in 1..(12 * MaxYears) |->
        IF (i - 1) % 12 = 0 THEN t0[((i - 1) \div 12) + 1] ELSE r]

\* The February..December data of <<composite, new>>.
RestPairs ==
    { <<Float(MISSING), Float(MISSING)>>, <<Float(1), Float(3)>>,
      <<Float(MISSING), Float(1)>> }

\* Weights as combine_stations makes them (1 where valid, 0 elsewhere), or
\* all 2.
MakeWeight(c, mode) ==
    [i \in 1..Len(c) |->
        IF mode = "two" THEN Float(2)
        ELSE IF valid(c[i]) THEN Float(1) ELSE Float(0)]

\* new_weight: the scalar 1, or an array holding year + 1.
ScalarWeight == [kind |-> "scalar", v |-> Float(1)]

ArrayWeight(len) ==
    [kind |-> "array", a |-> [i \in 1..len |-> Float(((i - 1) \div 12) + 1)]]

\* The <<weight, new_weight>> cases.
WeightCases(len) ==
    { <<"valid", ScalarWeight>>, <<"valid", ArrayWeight(len)>>,
      <<"two", ScalarWeight>> }

InitCombine ==
    /\ AnnualIdle
    /\ ZontemIdle
    /\ RestIdle
    /\ \E ct \in TrackValues, nt \in TrackValues, rp \in RestPairs,
          wc \in WeightCases(12 * MaxYears) :
         /\ composite = MakeSeries(ct, rp[1])
         /\ new = MakeSeries(nt, rp[2])
         /\ weight = MakeWeight(composite, wc[1])
         /\ new_weight = wc[2]
    /\ min_overlap \in 0..MaxYears
    /\ data_combined = [m \in 1..12 |-> 0]
    /\ bias = [m \in 1..12 |-> None]
    /\ composite_before = composite
    /\ weight_before = weight
    /\ pc = "call"
    /\ exc = "none"

\* The call runs to its return statement.
CombineReturn ==
    /\ pc = "call"
    /\ \E st \in {combine(composite, weight, new, new_weight, min_overlap)} :
           /\ st.exc = "none"
           /\ composite' = st.composite
           /\ weight' = st.weight
           /\ data_combined' = st.data_combined
           /\ bias' = st.bias
           /\ exc' = st.exc
    /\ pc' = "returned"
    /\ UNCHANGED <<new, new_weight, min_overlap, composite_before, weight_before>>
    /\ UNCHANGED <<annualVars, zontemVars, restVars>>

\* The call is ended by an exception; what it wrote so far stays written.
CombineRaise ==
    /\ pc = "call"
    /\ \E st \in {combine(composite, weight, new, new_weight, min_overlap)} :
           /\ st.exc # "none"
           /\ composite' = st.composite
           /\ weight' = st.weight
           /\ data_combined' = st.data_combined
           /\ bias' = st.bias
           /\ exc' = st.exc
    /\ pc' = "raised"
    /\ UNCHANGED <<new, new_weight, min_overlap, composite_before, weight_before>>
    /\ UNCHANGED <<annualVars, zontemVars, restVars>>

NextCombine == CombineReturn \/ CombineRaise

SpecCombine == InitCombine /\ [][NextCombine]_vars

-----------------------------------------------------------------------------
(* series.py: valid_mean, monthly_anomalies; zontem.py: annual_anomaly *)

\* Sum of the valid items of seq[1..n], starting from 0.0.
RECURSIVE valid_sum(_, _, _)
valid_sum(seq, lo, hi) ==
    IF lo > hi THEN Float(0)
    ELSE IF lo = hi
         THEN IF valid(seq[lo]) THEN seq[lo] ELSE Float(0)
         ELSE RAdd(valid_sum(seq, lo, (lo + hi) \div 2),
                   valid_sum(seq, (lo + hi) \div 2 + 1, hi))

valid_count(seq) == Cardinality({k \in 1..Len(seq) : valid(seq[k])})

\* valid_mean(seq, min): the mean of the valid items, MISSING if there are
\* fewer than min of them (min >= 1).
valid_mean(seq, min) ==
    IF valid_count(seq) >= min
    THEN RDiv(valid_sum(seq, 1, Len(seq)), Float(valid_count(seq)))
    ELSE Float(MISSING)

\* A slice bound as Python reads it: a negative bound counts from the end,
\* and the bound is clipped to 0..len.
slice_bound(b, len) ==
    IF b < 0 THEN Max(b + len, 0) ELSE Min(b, len)

\* The Python slice row[base:limit].
PySlice(row, base, limit) ==
    SubSeq(row, slice_bound(base, Len(row)) + 1, slice_bound(limit, Len(row)))

\* No reference period: None.
NoPeriod == <<>>

\* base and limit of monthly_anomalies, as <<base, limit>>.
reference_slice(reference_period, base_year) ==
    IF reference_period # NoPeriod
    THEN <<reference_period[1] - base_year, reference_period[2] - base_year + 1>>
    ELSE <<0, 0>>

\* The mean monthly_anomalies uses for one month's row.
row_mean(row, bl) ==
    IF invalid(valid_mean(PySlice(row, bl[1], bl[2]), 1))
    THEN valid_mean(row, 1)
    ELSE valid_mean(PySlice(row, bl[1], bl[2]), 1)

\* asanom without its test of the datum.
asanom_unchecked(datum, mean) == RSub(datum, mean)

\* asanom: a single datum as an anomaly.
asanom(datum, mean) ==
    IF valid(datum) THEN RSub(datum, mean) ELSE Float(MISSING)

\* The anomalized row of one month, given its mean.
row_anomalies(row, mean, years) ==
    IF valid(mean)
    THEN [k \in 1..Len(row) |-> asanom(row[k], mean)]
    ELSE [k \in 1..years |-> Float(MISSING)]

\* monthly_anomalies(data, reference_period, base_year): the pair
\* <<monthly_mean, monthly_anom>>, each 12 long.
monthly_anomalies(data, reference_period, base_year) ==
    LET bl == reference_slice(reference_period, base_year)
        means == [m \in 1..12 |-> row_mean(Track(data, m - 1), bl)]
    IN  <<means,
          [m \in 1..12 |->
              row_anomalies(Track(data, m - 1), means[m], Len(data) \div 12)]>>

\* Sum of year[1..n], as sum() adds them.
RECURSIVE sum_of(_, _)
sum_of(year, n) ==
    IF n = 0 THEN Float(0) ELSE RAdd(sum_of(year, n - 1), year[n])

\* The test of annual_anomaly: "all(valid(month) for month in year)".
\* (A slip: any instead of all.)
all_months_valid_any(year) == \E m \in 1..Len(year) : valid(year[m])

all_months_valid(year) == \A m \in 1..Len(year) : valid(year[m])

\* One year of annual_anomaly.
annualise(year) ==
    IF all_months_valid(year)
    THEN RDiv(sum_of(year, Len(year)), Float(12))
    ELSE Float(MISSING)

\* The length of zip(*anoms): that of the shortest row.
zip_length(anoms) ==
    CHOOSE n \in {Len(anoms[m]) : m \in 1..12} :
        \A m \in 1..12 : n <= Len(anoms[m])

\* annual_anomaly(monthly), given anoms = monthly_anomalies(monthly)[1].
annual_of(anoms) ==
    [k \in 1..zip_length(anoms) |-> annualise([m \in 1..12 |-> anoms[m][k]])]

annual_anomaly(monthly_) ==
    annual_of(monthly_anomalies(monthly_, NoPeriod, -9999)[2])

-----------------------------------------------------------------------------
(* The series annual_anomaly is called with *)

\* A series whose January track is t0 and whose other months have track t1.
MakeMonthly(t0, t1) ==
    [i \in 1..(12 * MaxYears) |->
        IF (i - 1) % 12 = 0 THEN t0[((i - 1) \div 12) + 1]
        ELSE t1[((i - 1) \div 12) + 1]]

InitAnnual ==
    /\ CombineIdle
    /\ ZontemIdle
    /\ RestIdle
    /\ \E t0 \in TrackValues, t1 \in TrackValues : monthly = MakeMonthly(t0, t1)
    /\ result = <<>>
    /\ apc = "call"

\* The call runs to its return statement.
AnnualAnomaly ==
    /\ apc = "call"
    /\ result' = annual_anomaly(monthly)
    /\ apc' = "returned"
    /\ UNCHANGED monthly
    /\ UNCHANGED <<combineVars, zontemVars, restVars>>

NextAnnual == AnnualAnomaly

SpecAnnual == InitAnnual /\ [][NextAnnual]_vars

-----------------------------------------------------------------------------
(* zontem.py: split *)

combine_overlap == 20

\* math.sin(math.radians(latitude)) in thousandths, for the latitudes of the
\* model's stations.
SinMilli(latitude) ==
    CASE latitude = -90 -> -1000
      [] latitude = -60 -> -866
      [] latitude = -45 -> -707
      [] latitude = -30 -> -500
      [] latitude = 0 -> 0
      [] latitude = 30 -> 500
      [] latitude = 45 -> 707
      [] latitude = 60 -> 866
      [] latitude = 90 -> 1000

Latitudes == {-90, -60, -45, -30, 0, 30, 45, 60, 90}

\* "i = min(i, N-1)": the zone of a hypothetical North Pole station.
\* (A slip: the fix is left out.)
fix_north_pole_missing(i, N) == i

fix_north_pole(i, N) == Min(i, N - 1)

\* The zone split computes for a latitude: z = sin(latitude),
\* i = int(floor((z + 1.0)/2*N)), i = min(i, N - 1).
zone_index(latitude, N) ==
    fix_north_pole(((SinMilli(latitude) + 1000) * N) \div 2000, N)

-----------------------------------------------------------------------------
(* zontem.py: combine_stations *)

\* The list [MISSING]*n.
missing_list(n) == [k \in 1..n |-> Float(MISSING)]

\* What combine_stations returns for no stations: the bare list combined.
bare_list(items) == [kind |-> "list", items |-> items]

\* ghcn.Station(series=combined, id="NEW").
new_station(series) == [kind |-> "Station", id |-> "NEW", series |-> series]

\* Whether x.series exists: a Station has the attribute, a list has not.
has_series(x) == x.kind = "Station"

good_months(station) ==
    Cardinality({k \in 1..Len(station.series) : station.series[k] # Float(MISSING)})

\* seq without its element k.
Remove(seq, k) == SubSeq(seq, 1, k - 1) \o SubSeq(seq, k + 1, Len(seq))

\* (A slip: reverse=True is left out, the sort is ascending.)
first_sorted_ascending(stations) ==
    CHOOSE k \in 1..Len(stations) :
        /\ \A j \in 1..Len(stations) :
              good_months(stations[j]) >= good_months(stations[k])
        /\ \A j \in 1..(k - 1) :
              good_months(stations[j]) > good_months(stations[k])

\* (A slip: of the stations with the largest key the latest is put first.)
first_sorted_latest(stations) ==
    CHOOSE k \in 1..Len(stations) :
        /\ \A j \in 1..Len(stations) :
              good_months(stations[j]) <= good_months(stations[k])
        /\ \A j \in (k + 1)..Len(stations) :
              good_months(stations[j]) < good_months(stations[k])

\* The element sorted(..., key=good_months, reverse=True) puts first: the
\* sort is stable, so it is the earliest of those with the largest key.
first_sorted(stations) ==
    CHOOSE k \in 1..Len(stations) :
        /\ \A j \in 1..Len(stations) :
              good_months(stations[j]) <= good_months(stations[k])
        /\ \A j \in 1..(k - 1) :
              good_months(stations[j]) < good_months(stations[k])

\* sorted(stations, key=good_months, reverse=True).
RECURSIVE sorted_stations(_)
sorted_stations(stations) ==
    IF stations = <<>> THEN <<>>
    ELSE <<stations[first_sorted(stations)]>>
         \o sorted_stations(Remove(stations, first_sorted(stations)))

\* The slice assignment target[:len(source)] = source.
assign_prefix(target, source) ==
    source \o SubSeq(target, Len(source) + 1, Len(target))

\* combined_weight = [valid(v) for v in combined]: True is 1, False is 0.
weight_of(c) == [k \in 1..Len(c) |-> IF valid(c[k]) THEN Float(1) ELSE Float(0)]

\* (A slip: the new series is given the weight 2.0.)
fold_station_twice(c, w, station) ==
    combine(c, w, assign_prefix(missing_list(Len(c)), station.series),
            [kind |-> "scalar", v |-> Float(2)], combine_overlap)

\* One iteration of the loop of combine_stations: the frame of
\* series.combine(combined, combined_weight, new, 1.0, combine_overlap).
fold_station(c, w, station) ==
    combine(c, w, assign_prefix(missing_list(Len(c)), station.series),
            [kind |-> "scalar", v |-> Float(1)], combine_overlap)

\* The composite combine_stations ends with, from the sorted stations rest
\* that are still to fold.
RECURSIVE fold_all(_, _, _)
fold_all(c, w, rest) ==
    IF rest = <<>> THEN c
    ELSE CHOOSE r \in {fold_all(st.composite, st.weight, Tail(rest)) :
                          st \in {fold_station(c, w, Head(rest))}} : TRUE

\* combine_stations(stations) for a non-empty list of Stations, M being
\* max_series_length: the series of the Station it returns.
combined_series(stations, M) ==
    LET first_station == Head(sorted_stations(stations))
        c0 == assign_prefix(missing_list(M), first_station.series)
    IN  fold_all(c0, weight_of(c0), Tail(sorted_stations(stations)))

-----------------------------------------------------------------------------
(* The process that calls zontem *)

\* A record of value v in every month of the years first..last (counted
\* from 0) of a record of the given number of years.
record_series(years, first, last, v) ==
    [k \in 1..(12 * years) |->
        IF first <= (k - 1) \div 12 /\ (k - 1) \div 12 <= last
        THEN Float(v) ELSE Float(MISSING)]

\* A two-year record with January of the first year and all of the second
\* year but January missing.
gappy_series(v) ==
    [k \in 1..24 |-> IF k \in 2..13 THEN Float(v) ELSE Float(MISSING)]

\* The stations ghcn.M.read can yield.
StationPool ==
    { [kind |-> "Station", id |-> "A", latitude |-> 90,
       series |-> record_series(LongYears, 0, LongYears - 1, 1)],
      [kind |-> "Station", id |-> "B", latitude |-> 0,
       series |-> record_series(LongYears, 1, LongYears - 1, 3)],
      [kind |-> "Station", id |-> "C", latitude |-> 45,
       series |-> record_series(1, 0, 0, 5)],
      [kind |-> "Station", id |-> "D", latitude |-> -90,
       series |-> gappy_series(2)] }

\* Lists of up to n different stations of pool.
RECURSIVE StationLists(_, _)
StationLists(pool, n) ==
    IF n = 0 THEN {<<>>}
    ELSE {<<>>} \cup
         UNION {{<<st>> \o rest : rest \in StationLists(pool \ {st}, n - 1)} :
                st \in pool}

\* A station at the equator that reports in January only.
StationH ==
    [kind |-> "Station", id |-> "H", latitude |-> 0,
     series |-> [k \in 1..(12 * LongYears) |->
                    IF (k - 1) % 12 = 0 THEN Float(5) ELSE Float(MISSING)]]

\* A station at the equator with a record of two years.
StationK ==
    [kind |-> "Station", id |-> "K", latitude |-> 0,
     series |-> record_series(2, 0, 1, 5)]

\* Inputs in which a station holds data where another station has a gap.
GapInputs ==
    StationLists({st \in StationPool : st.id = "B"} \cup {StationH, StationK}, 2)
        \ {<<>>}

ZontemInputs == (StationLists(StationPool, MaxStations) \ {<<>>}) \cup GapInputs

\* zontem(inp, N) is called: split makes one list for each zone.
Call(inp, N) ==
    /\ zpc \in {"idle", "returned"}
    /\ input' = inp
    /\ n_zones' = N
    /\ split_i' = 0
    /\ zone' = [j \in 1..N |-> <<>>]
    /\ zonal_average' = <<>>
    /\ stations_iter' = <<>>
    /\ combined' = <<>>
    /\ combined_weight' = <<>>
    /\ global_average' = <<>>
    /\ global_annual_average' = <<>>
    /\ zonal_annual_average' = <<>>
    /\ zpc' = "split"
    /\ zexc' = "none"
    /\ UNCHANGED max_series_length
    /\ UNCHANGED <<combineVars, annualVars, restVars>>

\* (A slip: the station is put at the head of the zone's list.)
zone_insert(list, station) == <<station>> \o list

\* zone[i].append(station).
zone_append(list, station) == Append(list, station)

\* One iteration of "for station in stations" in split.
SplitStation ==
    /\ zpc = "split"
    /\ split_i < Len(input)
    /\ LET station == input[split_i + 1]
           i == zone_index(station.latitude, n_zones)
       IN  /\ max_series_length' = Max(max_series_length, Len(station.series))
           /\ IF i < n_zones
              THEN /\ zone' = [zone EXCEPT ![i + 1] = zone_append(@, station)]
                   /\ zpc' = "split"
                   /\ zexc' = "none"
              ELSE /\ zone' = zone
                   /\ zpc' = "raised"
                   /\ zexc' = "IndexError"
    /\ split_i' = split_i + 1
    /\ UNCHANGED <<input, n_zones, zonal_average, stations_iter, combined,
                   combined_weight, global_average, global_annual_average,
                   zonal_annual_average>>
    /\ UNCHANGED <<combineVars, annualVars, restVars>>

\* split returns zone; map() starts on the zones.
SplitReturn ==
    /\ zpc = "split"
    /\ split_i = Len(input)
    /\ zpc' = "map"
    /\ UNCHANGED <<max_series_length, input, n_zones, split_i, zone, zonal_average,
                   stations_iter, combined, combined_weight, global_average,
                   global_annual_average, zonal_annual_average, zexc>>
    /\ UNCHANGED <<combineVars, annualVars, restVars>>

\* The argument of the combine_stations call that is due or under way: the
\* next zone, or the zonal averages.
stations_arg ==
    IF zpc \in {"map", "combine_zone"} THEN zone[Len(zonal_average) + 1]
    ELSE zonal_average

\* Where zontem is once combine_stations has returned r.
after_combine_stations(r) ==
    IF zpc \in {"map", "combine_zone"}
    THEN /\ zonal_average' = Append(zonal_average, r)
         /\ global_average' = global_average
         /\ zpc' = IF Len(zonal_average) + 1 = n_zones THEN "global" ELSE "map"
    ELSE /\ zonal_average' = zonal_average
         /\ global_average' = r
         /\ zpc' = "annual"

\* combine_stations is called with no stations: it returns the list
\* combined.
CombineStationsEmpty ==
    /\ zpc \in {"map", "global"}
    /\ stations_arg = <<>>
    /\ after_combine_stations(bare_list(missing_list(max_series_length)))
    /\ UNCHANGED <<max_series_length, input, n_zones, split_i, zone,
                   stations_iter, combined, combined_weight,
                   global_annual_average, zonal_annual_average, zexc>>
    /\ UNCHANGED <<combineVars, annualVars, restVars>>

\* combine_stations is called with stations: it sorts them and makes the
\* first one the composite.
CombineStationsFirst ==
    /\ zpc \in {"map", "global"}
    /\ stations_arg # <<>>
    /\ \A k \in 1..Len(stations_arg) : has_series(stations_arg[k])
    /\ \E sorted \in {sorted_stations(stations_arg)} :
         /\ stations_iter' = Tail(sorted)
         /\ combined' = assign_prefix(missing_list(max_series_length),
                                      Head(sorted).series)
    /\ combined_weight' = weight_of(combined')
    /\ zpc' = IF zpc = "map" THEN "combine_zone" ELSE "combine_global"
    /\ UNCHANGED <<max_series_length, input, n_zones, split_i, zone, zonal_average,
                   global_average, global_annual_average, zonal_annual_average,
                   zexc>>
    /\ UNCHANGED <<combineVars, annualVars, restVars>>

\* combine_stations is called with stations of which one has no series
\* attribute: good_months raises while they are sorted.
CombineStationsRaise ==
    /\ zpc \in {"map", "global"}
    /\ stations_arg # <<>>
    /\ \E k \in 1..Len(stations_arg) : ~has_series(stations_arg[k])
    /\ zpc' = "raised"
    /\ zexc' = "AttributeError"
    /\ UNCHANGED <<max_series_length, input, n_zones, split_i, zone, zonal_average,
                   stations_iter, combined, combined_weight, global_average,
                   global_annual_average, zonal_annual_average>>
    /\ UNCHANGED <<combineVars, annualVars, restVars>>

\* One iteration of "for i,station in enumerate(stations)".
CombineStationsFold ==
    /\ zpc \in {"combine_zone", "combine_global"}
    /\ stations_iter # <<>>
    /\ \E st \in {fold_station(combined, combined_weight, Head(stations_iter))} :
         /\ combined' = st.composite
         /\ combined_weight' = st.weight
         /\ zexc' = st.exc
         /\ zpc' = IF st.exc = "none" THEN zpc ELSE "raised"
    /\ stations_iter' = Tail(stations_iter)
    /\ UNCHANGED <<max_series_length, input, n_zones, split_i, zone, zonal_average,
                   global_average, global_annual_average, zonal_annual_average>>
    /\ UNCHANGED <<combineVars, annualVars, restVars>>

\* The loop is over: combine_stations returns a new Station.
CombineStationsReturn ==
    /\ zpc \in {"combine_zone", "combine_global"}
    /\ stations_iter = <<>>
    /\ after_combine_stations(new_station(combined))
    /\ UNCHANGED <<max_series_length, input, n_zones, split_i, zone,
                   stations_iter, combined, combined_weight,
                   global_annual_average, zonal_annual_average, zexc>>
    /\ UNCHANGED <<combineVars, annualVars, restVars>>

\* The annual anomalies of the global and the zonal averages; zontem
\* returns them.
AnnualAnomalies ==
    /\ zpc = "annual"
    /\ IF has_series(global_average)
          /\ \A k \in 1..Len(zonal_average) : has_series(zonal_average[k])
       THEN /\ global_annual_average' = annual_anomaly(global_average.series)
            /\ zonal_annual_average' =
                  [k \in 1..Len(zonal_average) |->
                      annual_anomaly(zonal_average[k].series)]
            /\ zpc' = "returned"
            /\ zexc' = "none"
       ELSE /\ global_annual_average' = global_annual_average
            /\ zonal_annual_average' = zonal_annual_average
            /\ zpc' = "raised"
            /\ zexc' = "AttributeError"
    /\ UNCHANGED <<max_series_length, input, n_zones, split_i, zone, zonal_average,
                   stations_iter, combined, combined_weight, global_average>>
    /\ UNCHANGED <<combineVars, annualVars, restVars>>

InitZontem ==
    /\ CombineIdle
    /\ AnnualIdle
    /\ ZontemIdle
    /\ RestIdle

NextZontem ==
    \/ \E inp \in ZontemInputs, N \in 1..MaxZones : Call(inp, N)
    \/ SplitStation
    \/ SplitReturn
    \/ CombineStationsEmpty
    \/ CombineStationsFirst
    \/ CombineStationsRaise
    \/ CombineStationsFold
    \/ CombineStationsReturn
    \/ AnnualAnomalies

SpecZontem == InitZontem /\ [][NextZontem]_vars

-----------------------------------------------------------------------------
(* The process that calls zontem, as far as split's return *)

\* A station of a one-year record at the given latitude; its id is its
\* place in the input.
station_at(place, latitude) ==
    [kind |-> "Station", id |-> place, latitude |-> latitude,
     series |-> record_series(1, 0, 0, 1)]

\* The inputs of up to MaxSplitStations stations at the latitudes of the
\* sine table.
SplitInputs ==
    UNION {{[k \in 1..n |-> station_at(k, lats[k])] : lats \in [1..n -> Latitudes]} :
           n \in 1..MaxSplitStations}

NextSplit ==
    \/ \E inp \in SplitInputs, N \in 1..MaxZones : Call(inp, N)
    \/ SplitStation
    \/ SplitReturn

SpecSplit == InitZontem /\ [][NextSplit]_vars

-----------------------------------------------------------------------------
(* giss_data.py: Series *)

\* The instance the calls are made on.
self ==
    [_first_month |-> _first_month, _series |-> _series,
     _good_count |-> _good_count]

first_month(s) == s._first_month

last_month(s) == first_month(s) + Len(s._series) - 1

first_year(s) == (first_month(s) - 1) \div 12

last_year(s) == (last_month(s) - 1) \div 12

\* What the loop of good_count computes: len(self._series) - bad_count.
counted_good(series) ==
    Len(series) - Cardinality({k \in 1..Len(series) : invalid(series[k])})

\* The property good_count: the cached value if there is one.
good_count(s) ==
    IF s._good_count = <<>> THEN counted_good(s._series) ELSE s._good_count[1]

\* list[idx] of Python: an index from -len to -1 counts from the end, an
\* index outside -len..len-1 raises IndexError.
getitem(list, idx) ==
    IF idx >= Len(list) \/ idx < -Len(list)
    THEN [exc |-> "IndexError", v |-> Float(MISSING)]
    ELSE [exc |-> "none", v |-> list[(idx % Len(list)) + 1]]

\* "if idx < 0" of _get_a_month.
\* (A slip: the test is left out.)
negative_index_unchecked(idx) == FALSE

negative_index(idx) == idx < 0

_get_a_month(s, month) ==
    IF negative_index(month - first_month(s)) THEN Float(MISSING)
    ELSE IF getitem(s._series, month - first_month(s)).exc = "IndexError"
         THEN Float(MISSING)
         ELSE getitem(s._series, month - first_month(s)).v

get_a_year(s, year) == [m \in 1..12 |-> _get_a_month(s, year * 12 + m)]

\* The number of months add_year pads a gap of years with.
\* (A slip: one month short.)
gap_months_short(gap) == gap * 12 - 1

gap_months(gap) == gap * 12

\* [MISSING] * n.
\* (A slip: the padding is 0.0.)
zero_months(n) == [k \in 1..n |-> Float(0)]

missing_months(n) == [k \in 1..n |-> Float(MISSING)]

\* "if year < self.first_year" of add_year.
\* (A slip: the test is left out.)
before_first_year_never(year, first) == FALSE

before_first_year(year, first) == year < first

\* "assert year == self.last_year + 1" of add_year.
\* (A slip: the assertion is left out.)
next_year_unchecked(year, last) == TRUE

next_year(year, last) == year = last + 1

\* The instance as add_year has it before its first assert.
padded(s, year) ==
    IF first_month(s) = sys_maxint
    THEN [s EXCEPT !._first_month = year * 12 + 1]
    ELSE IF year - last_year(s) - 1 > 0
         THEN [s EXCEPT !._series =
                   @ \o missing_months(gap_months(year - last_year(s) - 1))]
         ELSE s

\* (A slip: the data are appended before the order of the years is
\* asserted.)
add_padded_early(s1, year, data) ==
    IF first_month(s1) % 12 # 1
    THEN [self |-> s1, exc |-> "AssertionError"]
    ELSE IF before_first_year(year, first_year(s1))
         THEN [self |-> s1, exc |-> "none"]
         ELSE [self |-> [s1 EXCEPT !._series = @ \o data],
               exc |-> IF next_year(year, last_year(s1))
                       THEN "none" ELSE "AssertionError"]

\* add_year(year, data) from the padded instance on: the instance it
\* leaves and the exception that ends it.
add_padded(s1, year, data) ==
    IF first_month(s1) % 12 # 1
    THEN [self |-> s1, exc |-> "AssertionError"]
    ELSE IF before_first_year(year, first_year(s1))
         THEN [self |-> s1, exc |-> "none"]
         ELSE IF ~next_year(year, last_year(s1))
              THEN [self |-> s1, exc |-> "AssertionError"]
              ELSE [self |-> [s1 EXCEPT !._series = @ \o data],
                    exc |-> "none"]

add_year(s, year, data) == add_padded(padded(s, year), year, data)

-----------------------------------------------------------------------------
(* The process that uses a Series *)

\* The first_year arguments of the constructor (0 is taken as not given).
FirstYears == {0, 2}

\* The keyword arguments of Series(**k).
ConstructorArgs ==
    {[given |-> FALSE, first_year |-> 0]}
        \cup {[given |-> TRUE, first_year |-> y] : y \in FirstYears}

\* self._first_month as __init__ leaves it.
init_first_month(k) ==
    IF k.given /\ k.first_year # 0 THEN k.first_year * 12 + 1 ELSE sys_maxint

SeriesYears == 0..MaxSeriesYear

\* A year of data, and a year that lacks January.
YearData ==
    {[m \in 1..12 |-> Float(1)],
     [m \in 1..12 |-> IF m = 1 THEN Float(MISSING) ELSE Float(3)]}

\* The months and the years that are read.
ReadYears == 0..(MaxSeriesYear + 1)

ReadMonths == {y * 12 + m : y \in ReadYears, m \in {1, 12}}

InitSeries ==
    /\ CombineIdle
    /\ AnnualIdle
    /\ ZontemIdle
    /\ StorageIdle
    /\ AnomaliesIdle
    /\ ParallelIdle
    /\ \E k \in ConstructorArgs : _first_month = init_first_month(k)
    /\ _series = <<>>
    /\ _good_count = <<>>
    /\ series_op = "init"
    /\ series_year = 0
    /\ series_data = <<>>
    /\ series_result = <<>>
    /\ series_exc = "none"
    /\ series_calls = 0

AddYear(year, data) ==
    /\ series_calls < MaxCalls
    /\ \E r \in {add_year(self, year, data)} :
         /\ _first_month' = r.self._first_month
         /\ _series' = r.self._series
         /\ _good_count' = r.self._good_count
         /\ series_exc' = r.exc
    /\ series_op' = "add_year"
    /\ series_year' = year
    /\ series_data' = data
    /\ series_result' = <<>>
    /\ series_calls' = series_calls + 1
    /\ UNCHANGED <<combineVars, annualVars, zontemVars, storageVars,
                   anomaliesVars, parallelVars>>

GoodCount ==
    /\ series_calls < MaxCalls
    /\ series_result' = good_count(self)
    /\ _good_count' = <<good_count(self)>>
    /\ series_op' = "good_count"
    /\ series_year' = 0
    /\ series_data' = <<>>
    /\ series_exc' = "none"
    /\ series_calls' = series_calls + 1
    /\ UNCHANGED <<_first_month, _series>>
    /\ UNCHANGED <<combineVars, annualVars, zontemVars, storageVars,
                   anomaliesVars, parallelVars>>

GetAMonth(month) ==
    /\ series_result' = _get_a_month(self, month)
    /\ series_op' = "_get_a_month"
    /\ series_year' = month
    /\ series_data' = <<>>
    /\ series_exc' = "none"
    /\ UNCHANGED <<_first_month, _series, _good_count, series_calls>>
    /\ UNCHANGED <<combineVars, annualVars, zontemVars, storageVars,
                   anomaliesVars, parallelVars>>

GetAYear(year) ==
    /\ series_result' = get_a_year(self, year)
    /\ series_op' = "get_a_year"
    /\ series_year' = year
    /\ series_data' = <<>>
    /\ series_exc' = "none"
    /\ UNCHANGED <<_first_month, _series, _good_count, series_calls>>
    /\ UNCHANGED <<combineVars, annualVars, zontemVars, storageVars,
                   anomaliesVars, parallelVars>>

NextSeries ==
    \/ \E year \in SeriesYears, data \in YearData : AddYear(year, data)
    \/ GoodCount
    \/ \E month \in ReadMonths : GetAMonth(month)
    \/ \E year \in ReadYears : GetAYear(year)

SpecSeries == InitSeries /\ [][NextSeries]_vars

-----------------------------------------------------------------------------
(* zontem.py: zontem and combine_stations, with their lists as objects *)

\* The record of a station whose series is the list r.
with_series(station, r) == [station EXCEPT !.series = r]

\* The station as it reads now: its series is what its list holds; ref
\* remembers the list.
station_view(h, station) ==
    [kind |-> station.kind, id |-> station.id,
     series |-> h[station.series], ref |-> station.series]

\* The station that was read.
station_of(view) == [kind |-> view.kind, id |-> view.id, series |-> view.ref]

\* The zones split returns for the stations inp, station k's series being
\* the list k.
split_refs(inp, N) ==
    [j \in 1..N |->
        SelectSeq([k \in 1..Len(inp) |-> with_series(inp[k], k)],
                  LAMBDA st : zone_index(st.latitude, N) = j - 1)]

\* max_series_length after split, in a process that calls zontem once.
longest_series(inp) ==
    CHOOSE n \in {Len(inp[k].series) : k \in 1..Len(inp)} :
        \A k \in 1..Len(inp) : Len(inp[k].series) <= n

\* The list that combined names once the first station is in it: the list
\* "[MISSING]*M" has made, r being the number of lists there were.
\* (A slip: "combined = first_station.series".)
combined_object_aliased(r, first_station) == first_station.ref

combined_object(r, first_station) == r + 1

\* f with the value v at x.
Held(f, x, v) == [r \in DOMAIN f \cup {x} |-> IF r = x THEN v ELSE f[r]]

\* A station with a long record that is warmer in its first year.
StationE ==
    [kind |-> "Station", id |-> "E", latitude |-> 60,
     series |-> [k \in 1..(12 * LongYears) |->
                    IF k <= 12 THEN Float(5) ELSE Float(1)]]

StoragePool == {st \in StationPool : st.id \in {"A", "D"}} \cup {StationE}

StorageInputs == StationLists(StoragePool, MaxStations) \ {<<>>}

\* zontem(inp, N) is called and split returns.
HeapSplit(inp, N) ==
    /\ hpc = "idle"
    /\ heap' = [k \in 1..Len(inp) |-> inp[k].series]
    /\ held' = [k \in 1..Len(inp) |-> inp[k].series]
    /\ heap_M' = longest_series(inp)
    /\ zone_refs' = split_refs(inp, N)
    /\ hpc' = "map"
    /\ UNCHANGED <<zonal_refs, iter_refs, combined_ref, weight_list, global_ref>>
    /\ UNCHANGED <<combineVars, annualVars, zontemVars, seriesVars,
                   anomaliesVars, parallelVars>>

\* The argument of the combine_stations call that is due or under way.
heap_arg ==
    IF hpc \in {"map", "combine_zone"} THEN zone_refs[Len(zonal_refs) + 1]
    ELSE zonal_refs

\* Where zontem is once combine_stations has returned r.
after_heap_return(r) ==
    IF hpc \in {"map", "combine_zone"}
    THEN /\ zonal_refs' = Append(zonal_refs, r)
         /\ global_ref' = global_ref
         /\ hpc' = IF Len(zonal_refs) + 1 = Len(zone_refs) THEN "global" ELSE "map"
    ELSE /\ zonal_refs' = zonal_refs
         /\ global_ref' = r
         /\ hpc' = "returned"

\* combine_stations is called with no stations: it returns the list it
\* has made.
HeapEmpty ==
    /\ hpc \in {"map", "global"}
    /\ heap_arg = <<>>
    /\ heap' = Append(heap, missing_list(heap_M))
    /\ held' = Held(held, Len(heap) + 1, missing_list(heap_M))
    /\ after_heap_return(bare_list(Len(heap) + 1))
    /\ UNCHANGED <<heap_M, zone_refs, iter_refs, combined_ref, weight_list>>
    /\ UNCHANGED <<combineVars, annualVars, zontemVars, seriesVars,
                   anomaliesVars, parallelVars>>

\* combine_stations is called with a list among its stations: good_months
\* raises.
HeapRaise ==
    /\ hpc \in {"map", "global"}
    /\ heap_arg # <<>>
    /\ \E k \in 1..Len(heap_arg) : ~has_series(heap_arg[k])
    /\ hpc' = "raised"
    /\ UNCHANGED <<heap, heap_M, zone_refs, zonal_refs, iter_refs, combined_ref,
                   weight_list, global_ref, held>>
    /\ UNCHANGED <<combineVars, annualVars, zontemVars, seriesVars,
                   anomaliesVars, parallelVars>>

\* combine_stations is called with stations: it makes the list
\* [MISSING]*M, sorts the stations and assigns the first one's series to
\* combined[:len(first_station.series)].
HeapFirst ==
    /\ hpc \in {"map", "global"}
    /\ heap_arg # <<>>
    /\ \A k \in 1..Len(heap_arg) : has_series(heap_arg[k])
    /\ \E sorted \in {sorted_stations([k \in 1..Len(heap_arg) |->
                                         station_view(heap, heap_arg[k])])} :
         /\ iter_refs' = [k \in 1..(Len(sorted) - 1) |-> station_of(sorted[k + 1])]
         /\ combined_ref' = combined_object(Len(heap), Head(sorted))
         /\ heap' = [Append(heap, missing_list(heap_M))
                        EXCEPT ![combined_ref'] =
                            assign_prefix(@, heap[Head(sorted).ref])]
    /\ weight_list' = weight_of(heap'[combined_ref'])
    /\ hpc' = IF hpc = "map" THEN "combine_zone" ELSE "combine_global"
    /\ UNCHANGED <<heap_M, zone_refs, zonal_refs, global_ref, held>>
    /\ UNCHANGED <<combineVars, annualVars, zontemVars, seriesVars,
                   anomaliesVars, parallelVars>>

\* One iteration of "for i,station in enumerate(stations)": series.combine
\* writes into the list that combined names.
HeapFold ==
    /\ hpc \in {"combine_zone", "combine_global"}
    /\ iter_refs # <<>>
    /\ \E st \in {fold_station(heap[combined_ref], weight_list,
                               station_view(heap, Head(iter_refs)))} :
         /\ heap' = [heap EXCEPT ![combined_ref] = st.composite]
         /\ weight_list' = st.weight
         /\ hpc' = IF st.exc = "none" THEN hpc ELSE "raised"
    /\ iter_refs' = Tail(iter_refs)
    /\ UNCHANGED <<heap_M, zone_refs, zonal_refs, combined_ref, global_ref, held>>
    /\ UNCHANGED <<combineVars, annualVars, zontemVars, seriesVars,
                   anomaliesVars, parallelVars>>

\* The loop is over: combine_stations returns a Station whose series is
\* the list that combined names.
HeapReturn ==
    /\ hpc \in {"combine_zone", "combine_global"}
    /\ iter_refs = <<>>
    /\ held' = Held(held, combined_ref, heap[combined_ref])
    /\ after_heap_return(new_station(combined_ref))
    /\ UNCHANGED <<heap, heap_M, zone_refs, iter_refs, combined_ref, weight_list>>
    /\ UNCHANGED <<combineVars, annualVars, zontemVars, seriesVars,
                   anomaliesVars, parallelVars>>

InitStorage ==
    /\ CombineIdle
    /\ AnnualIdle
    /\ ZontemIdle
    /\ RestIdle

NextStorage ==
    \/ \E inp \in StorageInputs, N \in 1..MaxZones : HeapSplit(inp, N)
    \/ HeapEmpty
    \/ HeapRaise
    \/ HeapFirst
    \/ HeapFold
    \/ HeapReturn

SpecStorage == InitStorage /\ [][NextStorage]_vars

-----------------------------------------------------------------------------
(* The process that calls series.monthly_anomalies *)

\* A series of AnomalyYears years whose January track is t0 and whose
\* other months hold v in every year.
MakeData(t0, v) ==
    [i \in 1..(12 * AnomalyYears) |->
        IF (i - 1) % 12 = 0 THEN t0[((i - 1) \div 12) + 1] ELSE Float(v)]

\* The first year of the data.
BaseYears == {1880}

\* The reference periods (first, last) before, within and after the years
\* of the data, and None.
ReferencePeriods(base_year) ==
    {NoPeriod} \cup
    {<<first, last>> :
        first \in (base_year - AnomalyYears)..(base_year + AnomalyYears),
        last \in (base_year - AnomalyYears)..(base_year + AnomalyYears)}

\* The months of a last, incomplete year: none, or a January.
PartialYear(v) == {<<>>, <<Float(v)>>}

InitAnomalies ==
    /\ CombineIdle
    /\ AnnualIdle
    /\ ZontemIdle
    /\ SeriesIdle
    /\ StorageIdle
    /\ ParallelIdle
    /\ \E t0 \in [1..AnomalyYears -> DatumValues], v \in {1, MISSING} :
          \E partial \in PartialYear(v) :
              ma_data = MakeData(t0, v) \o partial
    /\ ma_base_year \in BaseYears
    /\ ma_reference_period \in ReferencePeriods(ma_base_year)
    /\ ma_monthly_mean = <<>>
    /\ ma_monthly_anom = <<>>
    /\ ma_pc = "call"

\* The call runs to its return statement.
MonthlyAnomalies ==
    /\ ma_pc = "call"
    /\ \E r \in {monthly_anomalies(ma_data, ma_reference_period, ma_base_year)} :
         /\ ma_monthly_mean' = r[1]
         /\ ma_monthly_anom' = r[2]
    /\ ma_pc' = "returned"
    /\ UNCHANGED <<ma_data, ma_reference_period, ma_base_year>>
    /\ UNCHANGED <<combineVars, annualVars, zontemVars, seriesVars,
                   storageVars, parallelVars>>

NextAnomalies == MonthlyAnomalies

SpecAnomalies == InitAnomalies /\ [][NextAnomalies]_vars

-----------------------------------------------------------------------------
(* zontem.py: the combine_stations calls of the zones, run side by side *)

\* The station st moved to the other hemisphere under the name id.
southern(st, id) == [st EXCEPT !.latitude = 0 - st.latitude, !.id = id]

\* Two stations with long records in the north and two in the south, in
\* the order the input yields them.
ParallelStations ==
    LET north(id) == CHOOSE st \in StoragePool : st.id = id
    IN  <<north("A"), southern(north("A"), "F"),
          north("E"), southern(north("E"), "G")>>

\* The elements of seq at the places S, from place k on.
RECURSIVE Pick(_, _, _)
Pick(seq, S, k) ==
    IF k > Len(seq) THEN <<>>
    ELSE (IF k \in S THEN <<seq[k]>> ELSE <<>>) \o Pick(seq, S, k + 1)

\* The inputs: some of these stations.
ParallelInputs ==
    {Pick(ParallelStations, S, 1) : S \in SUBSET (1..Len(ParallelStations)) \ {{}}}

\* A combine_stations call that has not begun.
worker_called ==
    [pc |-> "call", iter |-> <<>>, combined |-> 0, weight |-> <<>>,
     result |-> <<>>]

\* split has returned the zones of inp; one combine_stations call is due
\* for each of them.
ParSplit(inp, N) ==
    /\ par_worker = <<>>
    /\ par_heap' = [k \in 1..Len(inp) |-> inp[k].series]
    /\ par_M' = longest_series(inp)
    /\ par_zones' = split_refs(inp, N)
    /\ par_worker' = [z \in 1..N |-> worker_called]
    /\ log_file' = <<>>
    /\ UNCHANGED <<combineVars, annualVars, zontemVars, seriesVars,
                   storageVars, anomaliesVars>>

\* Zone z has no stations: its call returns the list it has made.
ParEmpty(z) ==
    /\ par_worker[z].pc = "call"
    /\ par_zones[z] = <<>>
    /\ par_heap' = Append(par_heap, missing_list(par_M))
    /\ par_worker' = [par_worker EXCEPT ![z].pc = "returned",
                                        ![z].result = bare_list(Len(par_heap) + 1)]
    /\ UNCHANGED <<par_M, par_zones, log_file>>
    /\ UNCHANGED <<combineVars, annualVars, zontemVars, seriesVars,
                   storageVars, anomaliesVars>>

\* Zone z has stations: its call makes the list [MISSING]*M, sorts the
\* stations, assigns the first one's series to the head of the list and
\* logs "LONGEST".
ParFirst(z) ==
    /\ par_worker[z].pc = "call"
    /\ par_zones[z] # <<>>
    /\ \E sorted \in {sorted_stations([k \in 1..Len(par_zones[z]) |->
                                         station_view(par_heap, par_zones[z][k])])} :
         \E c \in {combined_object(Len(par_heap), Head(sorted))} :
           /\ par_heap' = [Append(par_heap, missing_list(par_M))
                              EXCEPT ![c] = assign_prefix(@, par_heap[Head(sorted).ref])]
           /\ par_worker' =
                 [par_worker EXCEPT
                     ![z].pc = "loop",
                     ![z].iter = [k \in 1..(Len(sorted) - 1) |->
                                     station_of(sorted[k + 1])],
                     ![z].combined = c,
                     ![z].weight = weight_of(par_heap'[c])]
           /\ log_file' = Append(log_file, <<"LONGEST", Head(sorted).id>>)
    /\ UNCHANGED <<par_M, par_zones>>
    /\ UNCHANGED <<combineVars, annualVars, zontemVars, seriesVars,
                   storageVars, anomaliesVars>>

\* One iteration of the loop of zone z's call: series.combine writes into
\* the list that combined names and into combined_weight; "COMBINE" is
\* logged.
ParFold(z) ==
    /\ par_worker[z].pc = "loop"
    /\ par_worker[z].iter # <<>>
    /\ \E st \in {fold_station(par_heap[par_worker[z].combined],
                               par_worker[z].weight,
                               station_view(par_heap, Head(par_worker[z].iter)))} :
         /\ par_heap' = [par_heap EXCEPT ![par_worker[z].combined] = st.composite]
         /\ par_worker' =
               [par_worker EXCEPT
                   ![z].weight = st.weight,
                   ![z].iter = Tail(@),
                   ![z].pc = IF st.exc = "none" THEN "loop" ELSE "raised"]
         /\ log_file' =
               IF st.exc = "none"
               THEN Append(log_file, <<"COMBINE", Head(par_worker[z].iter).id>>)
               ELSE log_file
    /\ UNCHANGED <<par_M, par_zones>>
    /\ UNCHANGED <<combineVars, annualVars, zontemVars, seriesVars,
                   storageVars, anomaliesVars>>

\* The loop of zone z's call is over: it returns a Station whose series is
\* the list that combined names.
ParReturn(z) ==
    /\ par_worker[z].pc = "loop"
    /\ par_worker[z].iter = <<>>
    /\ par_worker' = [par_worker EXCEPT
                         ![z].pc = "returned",
                         ![z].result = new_station(par_worker[z].combined)]
    /\ UNCHANGED <<par_heap, par_M, par_zones, log_file>>
    /\ UNCHANGED <<combineVars, annualVars, zontemVars, seriesVars,
                   storageVars, anomaliesVars>>

InitParallel ==
    /\ CombineIdle
    /\ AnnualIdle
    /\ ZontemIdle
    /\ RestIdle

NextParallel ==
    \/ \E inp \in ParallelInputs, N \in 1..MaxZones : ParSplit(inp, N)
    \/ \E z \in DOMAIN par_worker : ParEmpty(z)
    \/ \E z \in DOMAIN par_worker : ParFirst(z)
    \/ \E z \in DOMAIN par_worker : ParFold(z)
    \/ \E z \in DOMAIN par_worker : ParReturn(z)

SpecParallel == InitParallel /\ [][NextParallel]_vars

-----------------------------------------------------------------------------
(* Properties of series.combine, checked under SpecCombine *)

Months == 0..11

\* The positions of calendar month m.
TrackPositions(m) == {i \in 1..Len(new) : (i - 1) % 12 = m}

\* The positions of month m where composite and new both held data when the
\* call was made, and their number.
Overlapping(m) ==
    {i \in TrackPositions(m) : valid(composite_before[i]) /\ valid(new[i])}

Overlap(m) == Cardinality(Overlapping(m))

\* The positions of month m where new holds data.
ValidNew(m) == {i \in TrackPositions(m) : valid(new[i])}

\* The weight of new at position i.
NewWeightAt(i) ==
    IF new_weight.kind = "scalar" THEN new_weight.v ELSE new_weight.a[i]

RECURSIVE SumOfDifferences(_)
SumOfDifferences(S) ==
    IF S = {} THEN Float(0)
    ELSE LET i == CHOOSE x \in S : TRUE
         IN  RAdd(RSub(composite_before[i], new[i]), SumOfDifferences(S \ {i}))

\* The mean of composite - new over the overlapping positions of month m
\* (for a month that has some).
MeanDifference(m) == RDiv(SumOfDifferences(Overlapping(m)), Float(Overlap(m)))

\* The weighted average of the composite and the bias-corrected new datum
\* at position i of month m.
WeightedAverage(i, m) ==
    RDiv(RAdd(RMul(weight_before[i], composite_before[i]),
              RMul(NewWeightAt(i), RAdd(new[i], MeanDifference(m)))),
         RAdd(weight_before[i], NewWeightAt(i)))

UnchangedAt(i) ==
    composite[i] = composite_before[i] /\ weight[i] = weight_before[i]

\* C1: a month whose overlap is below min_overlap keeps its composite and
\* weight at every position, however the call ends; a month whose overlap
\* equals min_overlap is not skipped: when the call returns, every datum of
\* new in it has been counted and has added its weight.
C1_SkippedTrackUnchanged ==
    pc # "call" =>
        \A m \in Months :
            /\ Overlap(m) < min_overlap =>
                  \A i \in TrackPositions(m) : UnchangedAt(i)
            /\ (pc = "returned" /\ Overlap(m) = min_overlap) =>
                  /\ data_combined[m + 1] = Cardinality(ValidNew(m))
                  /\ \A i \in ValidNew(m) :
                        weight[i] = RAdd(weight_before[i], NewWeightAt(i))

\* A call that returned having skipped a month that held data of new and
\* having combined a month whose overlap was exactly min_overlap.
C1_Witness ==
    /\ pc = "returned"
    /\ \E m \in Months : Overlap(m) < min_overlap /\ ValidNew(m) # {}
    /\ \E m \in Months :
          Overlap(m) = min_overlap /\ min_overlap >= 1 /\ data_combined[m + 1] >= 1

\* C2: after the call, in every month with overlap >= min_overlap, every
\* position where new holds data has composite = (w*c + nw*(new + bias)) /
\* (w + nw) and weight = w + nw, bias being the mean of composite - new over
\* the month's overlapping positions before the call; positions of the month
\* where new is the sentinel keep composite and weight.
C2_CombinedValue ==
    pc # "call" =>
        /\ pc = "returned"
        /\ \A m \in Months :
              Overlap(m) >= min_overlap =>
                  \A i \in TrackPositions(m) :
                      IF valid(new[i])
                      THEN /\ composite[i] = WeightedAverage(i, m)
                           /\ weight[i] = RAdd(weight_before[i], NewWeightAt(i))
                      ELSE UnchangedAt(i)

\* What does hold of C2: its equations hold whenever the call returns.
C2_CombinedValueOnReturn ==
    pc = "returned" =>
        \A m \in Months :
            Overlap(m) >= min_overlap =>
                \A i \in TrackPositions(m) :
                    IF valid(new[i])
                    THEN /\ composite[i] = WeightedAverage(i, m)
                         /\ weight[i] = RAdd(weight_before[i], NewWeightAt(i))
                    ELSE UnchangedAt(i)

\* The positions of month m whose weight the call changed.
WeightChanged(m) == {i \in TrackPositions(m) : weight[i] # weight_before[i]}

EmptyComposite ==
    /\ \A i \in 1..Len(composite_before) : invalid(composite_before[i])
    /\ \A i \in 1..Len(weight_before) : weight_before[i] = Float(0)

\* C4: combining any series into an empty composite (all sentinel, weight 0)
\* with new_weight = 1 and min_overlap = 0 returns and leaves composite
\* equal to new.
C4_RoundTrip ==
    (pc # "call" /\ EmptyComposite /\ new_weight = ScalarWeight /\ min_overlap = 0)
        => (pc = "returned" /\ composite = new)

AllSentinel(s) == \A i \in 1..Len(s) : invalid(s[i])

\* C5: combining a new series that is the sentinel everywhere changes
\* nothing, whatever min_overlap >= 0: the call returns, composite and
\* weight are as before and the 12 counts are 0.
C5_AllSentinelNewChangesNothing ==
    (pc # "call" /\ AllSentinel(new)) =>
        /\ pc = "returned"
        /\ composite = composite_before
        /\ weight = weight_before
        /\ data_combined = [m \in 1..12 |-> 0]

\* An all-sentinel series combined, at min_overlap = 0, into a composite
\* that holds data.
C5_Witness ==
    /\ pc = "returned"
    /\ AllSentinel(new)
    /\ min_overlap = 0
    /\ ~AllSentinel(composite_before)

\* new[i] - composite[i] at the first position of month m.
Offset(m) == RSub(new[m + 1], composite_before[m + 1])

\* composite and new hold data everywhere, the weights are 1 and new differs
\* from composite by one offset throughout each month.
ConstantOffset ==
    /\ \A i \in 1..Len(new) :
          /\ valid(composite_before[i])
          /\ valid(new[i])
          /\ weight_before[i] = Float(1)
    /\ \A m \in Months : \A i \in TrackPositions(m) :
          RSub(new[i], composite_before[i]) = Offset(m)

\* C6: under ConstantOffset, new_weight = 1 and min_overlap <= overlap, the
\* call computes bias = -offset for each month, leaves every composite value
\* unchanged and sets every weight to 2.
C6_ConstantOffsetCancels ==
    (pc # "call" /\ ConstantOffset /\ new_weight = ScalarWeight
       /\ \A m \in Months : min_overlap <= Overlap(m)) =>
        /\ pc = "returned"
        /\ \A m \in Months : bias[m + 1] = RNeg(Offset(m))
        /\ composite = composite_before
        /\ \A i \in 1..Len(weight) : weight[i] = Float(2)

\* Such a call with a non-zero offset in some month.
C6_Witness ==
    /\ pc = "returned"
    /\ ConstantOffset
    /\ new_weight = ScalarWeight
    /\ \A m \in Months : min_overlap <= Overlap(m)
    /\ \E m \in Months : Offset(m) # Float(0)

-----------------------------------------------------------------------------
(* Properties of annual_anomaly, checked under SpecAnnual *)

\* The months of year k (k = 0 for the first year) of the input.
YearPositions(k) == (12 * k + 1)..(12 * k + 12)

\* The valid values of the calendar month of position i, and their mean.
ValidOfMonth(i) ==
    {j \in 1..Len(monthly) : (j - 1) % 12 = (i - 1) % 12 /\ valid(monthly[j])}

RECURSIVE SumMonthly(_)
SumMonthly(S) ==
    IF S = {} THEN Float(0)
    ELSE LET j == CHOOSE x \in S : TRUE
         IN  RAdd(monthly[j], SumMonthly(S \ {j}))

MeanOfMonth(i) ==
    RDiv(SumMonthly(ValidOfMonth(i)), Float(Cardinality(ValidOfMonth(i))))

\* The sum of the anomalies datum - mean of its month over the positions S.
RECURSIVE SumAnomalies(_)
SumAnomalies(S) ==
    IF S = {} THEN Float(0)
    ELSE LET i == CHOOSE x \in S : TRUE
         IN  RAdd(RSub(monthly[i], MeanOfMonth(i)), SumAnomalies(S \ {i}))

\* C8: annual_anomaly returns one value per year of the input: the sentinel
\* if at least one of the year's 12 months is the sentinel, and otherwise a
\* non-sentinel value, the mean of the year's 12 monthly anomalies; no
\* partial-year average is produced.
C8_AnnualNeedsAllMonths ==
    apc = "returned" =>
        /\ Len(result) = Len(monthly) \div 12
        /\ \A k \in 0..(Len(result) - 1) :
              IF \E i \in YearPositions(k) : invalid(monthly[i])
              THEN invalid(result[k + 1])
              ELSE /\ valid(result[k + 1])
                   /\ result[k + 1] =
                         RDiv(SumAnomalies(YearPositions(k)), Float(12))

\* A result with a complete year and a year that lacks only some months.
C8_Witness ==
    /\ apc = "returned"
    /\ \E k \in 0..(Len(result) - 1) : valid(result[k + 1])
    /\ \E k \in 0..(Len(result) - 1) :
          /\ \E i \in YearPositions(k) : invalid(monthly[i])
          /\ \E i \in YearPositions(k) : valid(monthly[i])

-----------------------------------------------------------------------------
(* Properties of zontem, checked under SpecZontem *)

\* The zones split left without a station.
EmptyZones == {j \in 1..n_zones : zone[j] = <<>>}

\* C7: when split assigns no station to some zone, zontem still completes
\* without raising: that zone's composite is a Station whose series is all
\* sentinel and of length M, and the global composite is the one
\* combine_stations makes of the composites of the non-empty zones alone.
C7_EmptyZoneCompletes ==
    (zpc \in {"returned", "raised"} /\ EmptyZones # {}) =>
        /\ zpc = "returned"
        /\ \A j \in EmptyZones :
              /\ has_series(zonal_average[j])
              /\ zonal_average[j].series = missing_list(max_series_length)
        /\ has_series(global_average)
        /\ global_average.series =
              combined_series(SelectSeq(zonal_average,
                                        LAMBDA z : z.series # missing_list(max_series_length)),
                              max_series_length)

\* The length in months of the longest series of this call's input.
LongestInput ==
    CHOOSE n \in {Len(input[k].series) : k \in 1..Len(input)} :
        \A k \in 1..Len(input) : Len(input[k].series) <= n

\* The length of what combine_stations returned.
composite_length(r) == IF has_series(r) THEN Len(r.series) ELSE Len(r.items)

\* C10: in every call of zontem, also one made after earlier calls, M is the
\* length of the longest series of that call's input, and every zonal
\* composite and the global composite of the call has length M.
C10_MIsLongestOfThisCall ==
    zpc \in {"map", "combine_zone", "global", "combine_global", "annual", "returned"} =>
        /\ max_series_length = LongestInput
        /\ \A j \in 1..Len(zonal_average) :
              composite_length(zonal_average[j]) = LongestInput
        /\ global_average # <<>> => composite_length(global_average) = LongestInput

-----------------------------------------------------------------------------
(* Properties of split, checked under SpecSplit *)

\* How often station occurs in zone j (counted from 0).
Occurrences(station, j) ==
    Cardinality({p \in 1..Len(zone[j + 1]) : zone[j + 1][p] = station})

\* Whether j is min(floor((sin(latitude) + 1)/2*N), N - 1), from what floor
\* and min mean: x - 1 < floor(x) <= x, in thousandths.
IsZoneOf(j, latitude, N) ==
    LET x2000 == (SinMilli(latitude) + 1000) * N
    IN  \/ j < N - 1 /\ 2000 * j <= x2000 /\ x2000 < 2000 * (j + 1)
        \/ j = N - 1 /\ 2000 * (N - 1) <= x2000

\* C9: split never fails, and every station it has consumed is in exactly
\* one zone, once: the zone min(floor((sin(lat) + 1)/2*n_zones), n_zones - 1),
\* which is in 0..n_zones-1 and depends on the latitude only; latitude 90 is
\* in zone n_zones - 1, latitude -90 in zone 0 and, with two zones,
\* latitude 0 in zone 1.
C9_ZoneAssignment ==
    /\ zpc # "raised"
    /\ zpc \in {"split", "map"} =>
          \A k \in 1..Len(input) :
              IF k > split_i
              THEN \A j \in 0..(n_zones - 1) : Occurrences(input[k], j) = 0
              ELSE \E i \in 0..(n_zones - 1) :
                      /\ IsZoneOf(i, input[k].latitude, n_zones)
                      /\ \A j \in 0..(n_zones - 1) :
                            Occurrences(input[k], j) = IF j = i THEN 1 ELSE 0
                      /\ input[k].latitude = 90 => i = n_zones - 1
                      /\ input[k].latitude = -90 => i = 0
                      /\ (n_zones = 2 /\ input[k].latitude = 0) => i = 1
                      /\ \A l \in 1..split_i :
                            input[l].latitude = input[k].latitude =>
                                Occurrences(input[l], i) = 1

\* split has returned two zones, with a North Pole station and a station
\* on the equator both in zone 1.
C9_Witness ==
    /\ zpc = "map"
    /\ n_zones = 2
    /\ \E k, l \in 1..Len(input) :
          /\ input[k].latitude = 90
          /\ input[l].latitude = 0
          /\ Occurrences(input[k], 1) = 1
          /\ Occurrences(input[l], 1) = 1

-----------------------------------------------------------------------------
(* Properties of combine_stations, checked under SpecZontem *)

\* Whether the stations of seq are in non-increasing order of good_months.
NonIncreasing(seq) ==
    \A a, b \in 1..Len(seq) :
        a < b => good_months(seq[a]) >= good_months(seq[b])

\* Whether the sequences hold the same stations, each as often.
SameStations(p, q) ==
    /\ Len(p) = Len(q)
    /\ \A x \in {p[a] : a \in 1..Len(p)} \cup {q[a] : a \in 1..Len(q)} :
          Cardinality({a \in 1..Len(p) : p[a] = x}) =
          Cardinality({a \in 1..Len(q) : q[a] = x})

\* The composite is seeded from station k of the list stations, and the rest
\* of the list waits in non-increasing order of non-sentinel months.
SeededFrom(stations, k) ==
    /\ \A j \in 1..Len(stations) :
          good_months(stations[j]) <= good_months(stations[k])
    /\ combined' = assign_prefix(missing_list(max_series_length),
                                 stations[k].series)
    /\ SameStations(stations_iter', Remove(stations, k))
    /\ NonIncreasing(stations_iter')

\* The next waiting station is folded in by series.combine with
\* new_weight = 1.0 and min_overlap = 20.
FoldedNext ==
    /\ stations_iter' = Tail(stations_iter)
    /\ combined' =
          combine(combined, combined_weight,
                  assign_prefix(missing_list(Len(combined)),
                                Head(stations_iter).series),
                  [kind |-> "scalar", v |-> Float(1)], 20).composite

\* C11: within a zone, combine_stations seeds the composite with a station
\* that has the greatest number of non-sentinel months, and then folds the
\* remaining stations one by one in non-increasing order of that number,
\* each with new_weight = 1.0 and min_overlap = 20.
C11_ZoneFoldOrder ==
    [][/\ (zpc = "map" /\ zpc' = "combine_zone") =>
              \E k \in 1..Len(stations_arg) : SeededFrom(stations_arg, k)
       /\ (zpc = "combine_zone" /\ stations_iter # <<>>) =>
              /\ zpc' = "combine_zone"
              /\ FoldedNext]_vars

\* A zone whose stations were read in another order than they were folded
\* in, with a fold that went into the composite.
C11_Witness ==
    /\ zpc = "combine_zone"
    /\ stations_iter = <<>>
    /\ ~NonIncreasing(stations_arg)
    /\ \E i \in 1..Len(combined_weight) : combined_weight[i] = Float(2)

\* C12: the global composite is made by folding the zonal composites in
\* zone order: that of zone 0 seeds it, and those of zones 1, 2, ... are
\* folded in, in increasing zone index.
C12_GlobalFoldInZoneOrder ==
    [][/\ (zpc = "global" /\ zpc' = "combine_global") =>
              /\ combined' = assign_prefix(missing_list(max_series_length),
                                           zonal_average[1].series)
              /\ stations_iter' = Tail(zonal_average)
       /\ (zpc = "combine_global" /\ stations_iter # <<>>) =>
              /\ zpc' = "combine_global"
              /\ FoldedNext]_vars

-----------------------------------------------------------------------------
(* Properties of giss_data.Series, checked under SpecSeries *)

\* The step is a call add_year(series_year', series_data').
AddYearStep ==
    /\ series_op' = "add_year"
    /\ series_calls' = series_calls + 1

\* The step left the stored values and the first month as they were.
SeriesUnchanged ==
    /\ _series' = _series
    /\ _first_month' = _first_month

\* A year of 12 sentinel months.
missing_year == [m \in 1..12 |-> Float(MISSING)]

\* C13 as it was claimed: add_year on a non-empty series with a year that
\* is not after last_year always ends by an assertion failure.
C13_OutOfOrderAlwaysFails ==
    [][(AddYearStep /\ Len(_series) > 0 /\ series_year' <= last_year(self)) =>
           /\ series_exc' = "AssertionError"
           /\ SeriesUnchanged]_vars

\* C13: add_year on a non-empty series with first_year <= year <= last_year
\* ends by an assertion failure and leaves the series as it was; it is
\* never accepted and never silently ignored.
C13_OutOfOrderFails ==
    [][(/\ AddYearStep
        /\ Len(_series) > 0
        /\ first_year(self) <= series_year'
        /\ series_year' <= last_year(self)) =>
           /\ series_exc' = "AssertionError"
           /\ SeriesUnchanged]_vars

\* add_year has failed for a year before the last year of a series.
C13_Witness ==
    /\ series_op = "add_year"
    /\ series_exc = "AssertionError"
    /\ Len(_series) > 0
    /\ first_year(self) <= series_year
    /\ series_year < last_year(self)

\* C14: an add_year(year, data) that succeeds with year > last_year + 1
\* fills every skipped year with 12 sentinel months: afterwards last_year is
\* year, get_a_year(year) is data, get_a_year(y) is all sentinel for every
\* skipped year y, last_year = first_year + len(series)/12 - 1, and what was
\* stored before is still there.
C14_GapFilledWithSentinel ==
    [][(/\ AddYearStep
        /\ series_exc' = "none"
        /\ series_year' > last_year(self) + 1) =>
           /\ last_year(self') = series_year'
           /\ get_a_year(self', series_year') = series_data'
           /\ \A y \in (last_year(self) + 1)..(series_year' - 1) :
                 get_a_year(self', y) = missing_year
           /\ Len(_series') % 12 = 0
           /\ last_year(self') = first_year(self') + Len(_series') \div 12 - 1
           /\ SubSeq(_series', 1, Len(_series)) = _series]_vars

\* add_year has put a year after a gap behind a year of data.
C14_Witness ==
    /\ series_op = "add_year"
    /\ series_exc = "none"
    /\ last_year(self) = series_year
    /\ get_a_year(self, series_year) = series_data
    /\ get_a_year(self, series_year - 1) = missing_year
    /\ get_a_year(self, first_year(self)) # missing_year
    /\ first_year(self) < series_year - 1

\* C15: once first_year is fixed, add_year with year < first_year returns
\* normally and leaves the stored values, the length and first_year as they
\* were; and no call changes first_year once it is fixed.
C15_BeforeFirstYearDiscarded ==
    [][/\ (/\ AddYearStep
           /\ _first_month # sys_maxint
           /\ series_year' < first_year(self)) =>
              /\ series_exc' = "none"
              /\ SeriesUnchanged
       /\ _first_month # sys_maxint => first_year(self') = first_year(self)]_vars

\* add_year has returned from a call for a year before the first year of a
\* series that holds data.
C15_Witness ==
    /\ series_op = "add_year"
    /\ series_exc = "none"
    /\ series_year < first_year(self)
    /\ Len(_series) > 0

\* C16: whatever calls of add_year with 12 values are made, also discarded
\* and failing ones, the length of the stored values is a multiple of 12
\* and never decreases.
C16_WholeYearsOnly ==
    [][/\ Len(_series') % 12 = 0
       /\ Len(_series') >= Len(_series)]_vars

\* A call has failed on a series that holds a gap: three years or more.
C16_Witness ==
    /\ series_op = "add_year"
    /\ series_exc = "AssertionError"
    /\ Len(_series) >= 36
    /\ \E y \in first_year(self)..last_year(self) :
          get_a_year(self, y) = missing_year

\* C17: the valid count that good_count returns is the number of
\* non-sentinel months the series holds when it is read.
C17_GoodCountIsCurrent ==
    series_op = "good_count" =>
        series_result =
            Cardinality({k \in 1..Len(_series) : valid(_series[k])})

\* The stored value of a month within first_month..last_month, the sentinel
\* for any other month.
ValueAt(month) ==
    IF first_month(self) <= month /\ month <= last_month(self)
    THEN _series[month - first_month(self) + 1]
    ELSE Float(MISSING)

\* C18: _get_a_month returns the stored value of a month within
\* first_month..last_month and the sentinel for any other month;
\* get_a_year returns 12 values, those of the year's months, all sentinel
\* for a year outside first_year..last_year; neither raises or changes the
\* series.
C18_ReadsAreTotal ==
    [][/\ series_op' = "_get_a_month" =>
              /\ series_result' = ValueAt(series_year')
              /\ series_exc' = "none"
              /\ SeriesUnchanged
       /\ series_op' = "get_a_year" =>
              /\ Len(series_result') = 12
              /\ \A m \in 1..12 :
                    series_result'[m] = ValueAt(series_year' * 12 + m)
              /\ (series_year' < first_year(self)
                    \/ series_year' > last_year(self)) =>
                        series_result' = missing_year
              /\ series_exc' = "none"
              /\ SeriesUnchanged]_vars

\* A month before the first has been read, as near to it as the series is
\* long.
C18_Witness ==
    /\ series_op = "_get_a_month"
    /\ series_year < first_month(self)
    /\ first_month(self) - series_year <= Len(_series)
    /\ series_result = Float(MISSING)
    /\ _series[Len(_series)] # Float(MISSING)

-----------------------------------------------------------------------------
(* Properties of the lists of zontem, checked under SpecStorage *)

\* The list a result of combine_stations is made of.
list_of(x) == IF has_series(x) THEN x.series ELSE x.items

\* The lists of the input stations, and those of the zonal composites.
InputLists ==
    UNION {{zone_refs[j][k].series : k \in 1..Len(zone_refs[j])} :
           j \in 1..Len(zone_refs)}

ZonalLists == {list_of(zonal_refs[j]) : j \in 1..Len(zonal_refs)}

\* C19: combine_stations never modifies the series of an input station and
\* returns a composite that shares no list with its inputs: through the
\* zonal reductions and the global fold, every input series and every
\* composite that has been returned holds what it held when it was handed
\* over, and the composites are lists of their own.
C19_CompositesAreFresh ==
    /\ \A r \in DOMAIN held : heap[r] = held[r]
    /\ hpc \in {"combine_zone", "combine_global"} =>
          combined_ref \notin DOMAIN held
    /\ ZonalLists \cap InputLists = {}
    /\ Cardinality(ZonalLists) = Len(zonal_refs)
    /\ global_ref # <<>> =>
          list_of(global_ref) \notin ZonalLists \cup InputLists

\* zontem has made the global composite of two zones, and a zonal
\* composite holds other values than every input series.
C19_Witness ==
    /\ hpc = "returned"
    /\ Len(zonal_refs) >= 2
    /\ \E j \in 1..Len(zonal_refs) :
          \A r \in InputLists : heap[list_of(zonal_refs[j])] # heap[r]

-----------------------------------------------------------------------------
(* Properties of monthly_anomalies, checked under SpecAnomalies *)

\* The positions in ma_data of calendar month m (counted from 0) that hold
\* a valid value of a year within the reference period.
ReferenceValues(m) ==
    {i \in 1..Len(ma_data) :
        /\ (i - 1) % 12 = m
        /\ valid(ma_data[i])
        /\ ma_reference_period[1] <= ma_base_year + (i - 1) \div 12
        /\ ma_base_year + (i - 1) \div 12 <= ma_reference_period[2]}

RECURSIVE SumData(_)
SumData(S) ==
    IF S = {} THEN Float(0)
    ELSE LET i == CHOOSE x \in S : TRUE
         IN  RAdd(ma_data[i], SumData(S \ {i}))

\* C20: with a reference period (first, last), the mean monthly_anomalies
\* uses for a calendar month that has a valid value in a year y with
\* first <= y <= last is the mean of exactly those values, also for a
\* period that begins before base_year or ends after the last year of the
\* data.
C20_MeanOverReferencePeriod ==
    (ma_pc = "returned" /\ ma_reference_period # NoPeriod) =>
        \A m \in 0..11 :
            ReferenceValues(m) # {} =>
                ma_monthly_mean[m + 1] =
                    RDiv(SumData(ReferenceValues(m)),
                         Float(Cardinality(ReferenceValues(m))))

\* The same for the reference periods that do not begin before base_year;
\* this much of C20 holds.
C20_MeanOverPeriodFromBaseYear ==
    (/\ ma_pc = "returned"
     /\ ma_reference_period # NoPeriod
     /\ ma_reference_period[1] >= ma_base_year) =>
        \A m \in 0..11 :
            ReferenceValues(m) # {} =>
                ma_monthly_mean[m + 1] =
                    RDiv(SumData(ReferenceValues(m)),
                         Float(Cardinality(ReferenceValues(m))))

\* The positions in ma_data of calendar month m (counted from 0) that hold
\* a valid value.
WholeTrackValues(m) ==
    {i \in 1..Len(ma_data) : (i - 1) % 12 = m /\ valid(ma_data[i])}

\* The reference-period mean of calendar month m is undefined: no period
\* was given, or no year of the period holds a valid value of the track.
PeriodMeanUndefined(m) ==
    \/ ma_reference_period = NoPeriod
    \/ ReferenceValues(m) = {}

\* C21: when the reference-period mean of calendar month m is undefined
\* (no valid value of the track in the period, or no period given) the
\* mean used for m is the mean of all the valid values of the whole track
\* m, whatever the other months use.
C21_FallbackToWholeTrack ==
    ma_pc = "returned" =>
        \A m \in 0..11 :
            (PeriodMeanUndefined(m) /\ WholeTrackValues(m) # {}) =>
                ma_monthly_mean[m + 1] =
                    RDiv(SumData(WholeTrackValues(m)),
                         Float(Cardinality(WholeTrackValues(m))))

\* The same for no period and for the periods whose two slice bounds are
\* not negative (first >= base_year and last >= base_year - 1); this much
\* of C21 holds.
C21_FallbackWithBoundsInData ==
    (/\ ma_pc = "returned"
     /\ \/ ma_reference_period = NoPeriod
        \/ /\ ma_reference_period[1] >= ma_base_year
           /\ ma_reference_period[2] >= ma_base_year - 1) =>
        \A m \in 0..11 :
            (PeriodMeanUndefined(m) /\ WholeTrackValues(m) # {}) =>
                ma_monthly_mean[m + 1] =
                    RDiv(SumData(WholeTrackValues(m)),
                         Float(Cardinality(WholeTrackValues(m))))

\* The valid positions of calendar month m (counted from 0) in the years
\* lo..hi of the data, years counted from 1.
ValidInYears(m, lo, hi) ==
    {i \in WholeTrackValues(m) : lo <= (i - 1) \div 12 + 1 /\ (i - 1) \div 12 + 1 <= hi}

\* v is the mean of the valid values of track m over some run of years
\* that holds one: no sentinel is part of it.
MeanOfValidValues(v, m) ==
    \E lo \in 1..Len(Track(ma_data, m)), hi \in 1..Len(Track(ma_data, m)) :
        /\ ValidInYears(m, lo, hi) # {}
        /\ v = RDiv(SumData(ValidInYears(m, lo, hi)),
                    Float(Cardinality(ValidInYears(m, lo, hi))))

\* C22: monthly_anomalies never takes the sentinel for a measurement.  For
\* a calendar month with a valid datum the mean is a mean of valid values
\* only, the anomaly at a position is the sentinel exactly when the datum
\* there is the sentinel, and a valid datum yields datum - mean; a
\* calendar month with no valid datum gets the sentinel as its mean and
\* len(data)//12 sentinels as its anomalies.
C22_SentinelIsNeverAMeasurement ==
    ma_pc = "returned" =>
        \A m \in 0..11 :
            IF WholeTrackValues(m) = {}
            THEN /\ ma_monthly_mean[m + 1] = Float(MISSING)
                 /\ ma_monthly_anom[m + 1] =
                        [k \in 1..(Len(ma_data) \div 12) |-> Float(MISSING)]
            ELSE /\ MeanOfValidValues(ma_monthly_mean[m + 1], m)
                 /\ Len(ma_monthly_anom[m + 1]) = Len(Track(ma_data, m))
                 /\ \A k \in 1..Len(ma_monthly_anom[m + 1]) :
                       IF invalid(ma_data[12 * (k - 1) + m + 1])
                       THEN ma_monthly_anom[m + 1][k] = Float(MISSING)
                       ELSE /\ valid(ma_monthly_anom[m + 1][k])
                            /\ ma_monthly_anom[m + 1][k] =
                                   RSub(ma_data[12 * (k - 1) + m + 1],
                                        ma_monthly_mean[m + 1])

\* monthly_anomalies has returned for data that ends in an incomplete
\* year, with a calendar month that has no valid datum and a January
\* track that holds a sentinel and two different temperatures.
C22_Witness ==
    /\ ma_pc = "returned"
    /\ Len(ma_data) % 12 # 0
    /\ \E m \in 0..11 : WholeTrackValues(m) = {}
    /\ \E k \in 1..Len(ma_monthly_anom[1]) : invalid(ma_monthly_anom[1][k])
    /\ \E k \in 1..Len(ma_monthly_anom[1]) :
          /\ valid(ma_monthly_anom[1][k])
          /\ ma_monthly_anom[1][k] # Float(0)

-----------------------------------------------------------------------------
(* Properties of the zones reduced side by side, checked under SpecParallel *)

\* The lists of the input stations.
ParInputLists ==
    UNION {{par_zones[j][k].series : k \in 1..Len(par_zones[j])} :
              j \in 1..Len(par_zones)}

\* The stations of zone z as they read now.
ZoneStations(z) ==
    [k \in 1..Len(par_zones[z]) |-> station_view(par_heap, par_zones[z][k])]

\* The lists that differ between this state and the next.
ListsWritten ==
    {r \in 1..Len(par_heap) : par_heap'[r] # par_heap[r]}

\* This step belongs to the combine_stations call of zone z.
StepOfZone(z) == par_worker'[z] # par_worker[z]

\* C23: the reductions of the zones share no mutable state that affects
\* their results.  Whatever the order or interleaving of the
\* combine_stations calls after split, a step of zone z writes no list but
\* the one that z's combined names, which is no input list and no other
\* zone's composite, leaves the other calls' composite and weights alone,
\* and the composite z returns is the one combine_stations computes for
\* that zone when run on its own, in sequence.
C23_ZonesReduceIndependently ==
    [][\A z \in DOMAIN par_worker :
          StepOfZone(z) =>
              /\ \A y \in DOMAIN par_worker \ {z} : par_worker'[y] = par_worker[y]
              /\ \A r \in ListsWritten :
                    /\ r = par_worker[z].combined
                    /\ r \notin ParInputLists
                    /\ \A y \in DOMAIN par_worker \ {z} :
                          /\ par_worker[y].combined # r
                          /\ par_worker[y].result # <<>> =>
                                list_of(par_worker[y].result) # r
              /\ (par_worker'[z].pc = "returned" /\ par_zones[z] # <<>>) =>
                    par_heap'[par_worker'[z].result.series] =
                        combined_series(ZoneStations(z), par_M)
              /\ (par_worker'[z].pc = "returned" /\ par_zones[z] = <<>>) =>
                    par_heap'[par_worker'[z].result.items] = missing_list(par_M)]_vars

\* Two zones have been reduced with their steps interleaved: both calls
\* seeded their composite before either folded its second station, and
\* each fold changed its composite.
C23_Witness ==
    /\ Len(par_worker) = 2
    /\ \A z \in 1..2 : par_worker[z].pc = "returned" /\ Len(par_zones[z]) = 2
    /\ Len(log_file) = 4
    /\ log_file[1][1] = "LONGEST"
    /\ log_file[2][1] = "LONGEST"
    /\ \A z \in 1..2 : \A r \in ParInputLists :
          par_heap[par_worker[z].result.series] # par_heap[r]

-----------------------------------------------------------------------------
(* Independence of the calendar months in series.combine, checked under
   SpecCombine *)

\* The series s with the value v at every position that is not of calendar
\* month m.
OtherMonthsSet(s, m, v) ==
    [i \in 1..Len(s) |-> IF (i - 1) % 12 = m THEN s[i] ELSE v]

\* The weights w with those of a valid (1) or missing (0) composite datum
\* at every position that is not of calendar month m.
OtherWeightsSet(w, m, v) ==
    [i \in 1..Len(w) |->
        IF (i - 1) % 12 = m THEN w[i]
        ELSE IF valid(v) THEN Float(1) ELSE Float(0)]

\* The frame combine ends with when the call is made with the same values
\* at the positions of month m and the pair rp at all the others.
CombineWithOtherMonths(m, rp) ==
    combine(OtherMonthsSet(composite_before, m, rp[1]),
            OtherWeightsSet(weight_before, m, rp[1]),
            OtherMonthsSet(new, m, rp[2]),
            new_weight, min_overlap)

\* The call at hand and the call alt end alike at the positions of month m.
SameAtMonth(m, alt) ==
    /\ \A i \in TrackPositions(m) :
          composite[i] = alt.composite[i] /\ weight[i] = alt.weight[i]
    /\ data_combined[m + 1] = alt.data_combined[m + 1]

\* The months whose data differ between the positions: January, and
\* February for all the others.
TwoMonths == {0, 1}

\* C24: series.combine treats the calendar months independently.  What a
\* call leaves in composite and weight at the positions of month m, and
\* its count for m, are the same for every other call that has the same
\* composite, weight, new and new_weight at the positions of m, whatever
\* these hold at the positions of the other months.
C24_MonthsAreIndependent ==
    pc # "call" =>
        \A m \in TwoMonths : \A rp \in RestPairs :
            \A alt \in {CombineWithOtherMonths(m, rp)} : SameAtMonth(m, alt)

\* The same for the calls that return, compared with calls that return;
\* this much of C24 holds.
C24_MonthsAreIndependentOnReturn ==
    pc = "returned" =>
        \A m \in TwoMonths : \A rp \in RestPairs :
            \A alt \in {CombineWithOtherMonths(m, rp)} :
                alt.exc = "none" => SameAtMonth(m, alt)

-----------------------------------------------------------------------------
(* The order of stations with equal counts, checked under SpecZontem *)

\* The place of station st in the input stream.
PlaceInInput(st) == CHOOSE k \in 1..Len(input) : input[k] = st

\* The station the composite of the call at hand was seeded with: the one
\* of its stations that does not wait to be folded.
SeedStation(waiting) ==
    CHOOSE st \in {stations_arg[k] : k \in 1..Len(stations_arg)} :
        \A j \in 1..Len(waiting) : waiting[j] # st

\* The stations of the call at hand in the order they are seeded and
\* folded in, waiting being those that are not folded yet.
FoldOrder(waiting) == <<SeedStation(waiting)>> \o waiting

\* Stations of seq with equal counts are in the order of the input stream.
TiesInInputOrder(seq) ==
    \A a, b \in 1..Len(seq) :
        (a < b /\ good_months(seq[a]) = good_months(seq[b])) =>
            PlaceInInput(seq[a]) < PlaceInInput(seq[b])

\* C25: stations of a zone with the same number of non-sentinel months are
\* taken in the order of the input stream: the composite is seeded with
\* the first station of an order in which, of two stations with equal
\* counts, the one that came earlier in the input stands first, and the
\* others are folded in one by one in that order.
C25_TiesKeepInputOrder ==
    [][/\ (zpc = "map" /\ zpc' = "combine_zone") =>
              /\ SameStations(FoldOrder(stations_iter'), stations_arg)
              /\ TiesInInputOrder(FoldOrder(stations_iter'))
              /\ combined' = assign_prefix(missing_list(max_series_length),
                                           SeedStation(stations_iter').series)
       /\ (zpc = "combine_zone" /\ stations_iter # <<>>) =>
              /\ stations_iter' = Tail(stations_iter)
              /\ combined' = fold_station(combined, combined_weight,
                                          Head(stations_iter)).composite]_vars

\* A zone has just been seeded with station D, which came before station C
\* in the input and has as many non-sentinel months; C is the next to fold.
C25_Witness ==
    /\ zpc = "combine_zone"
    /\ Len(stations_iter) = Len(stations_arg) - 1
    /\ stations_iter # <<>>
    /\ SeedStation(stations_iter).id = "D"
    /\ Head(stations_iter).id = "C"
    /\ good_months(SeedStation(stations_iter)) = good_months(Head(stations_iter))
    /\ PlaceInInput(SeedStation(stations_iter)) < PlaceInInput(Head(stations_iter))

-----------------------------------------------------------------------------
(* The weights of combine_stations, checked under SpecZontem *)

\* A combine_stations call is in its loop, before or after any fold.
InLoop == zpc \in {"combine_zone", "combine_global"}

\* The step seeds the composite of a combine_stations call.
SeedStep == zpc \in {"map", "global"} /\ zpc' \in {"combine_zone", "combine_global"}

\* The step folds the next waiting station into the composite.
FoldStep == InLoop /\ stations_iter # <<>> /\ zpc' = zpc

\* Whether the series holds a value at position i.
HasValue(series, i) == i <= Len(series) /\ valid(series[i])

\* The number of years in which the composite c and the series both hold
\* a value in the calendar month of position i.
YearsInCommon(c, series, i) ==
    Cardinality({k \in 1..Len(c) :
                    /\ (k - 1) % 12 = (i - 1) % 12
                    /\ valid(c[k])
                    /\ HasValue(series, k)})

\* Whether the station folded into the composite c contributes a value at
\* position i: it holds one there and its calendar month has the overlap
\* that is asked for.
Contributes(c, station, i) ==
    /\ HasValue(station.series, i)
    /\ YearsInCommon(c, station.series, i) >= combine_overlap

\* C26: in combine_stations the weight at a position is the number of
\* series that contributed a value there: after seeding it is 1 where the
\* seed holds a value and 0 elsewhere, every fold adds 1 exactly where
\* the folded station contributes, and at all times the weight is 0
\* exactly where the composite holds the sentinel, so that the sentinel
\* never enters a weighted average with a weight other than 0.
C26_WeightCountsContributions ==
    [][/\ InLoop' =>
              \A i \in 1..Len(combined') :
                  combined_weight'[i] = Float(0) <=> invalid(combined'[i])
       /\ SeedStep =>
              \A i \in 1..Len(combined') :
                  combined_weight'[i] =
                      IF valid(combined'[i]) THEN Float(1) ELSE Float(0)
       /\ FoldStep =>
              \A i \in 1..Len(combined) :
                  combined_weight'[i] =
                      IF Contributes(combined, Head(stations_iter), i)
                      THEN RAdd(combined_weight[i], Float(1))
                      ELSE combined_weight[i]]_vars

\* Station H has been folded into B: it gave the composite its value for
\* the first January, where B has none (weight 1), added to B's other
\* Januaries (weight 2) and left the other months alone.
C26_Witness ==
    /\ zpc = "combine_zone"
    /\ stations_iter = <<>>
    /\ Len(stations_arg) = 2
    /\ combined_weight[1] = Float(1)
    /\ combined_weight[2] = Float(0)
    /\ combined_weight[13] = Float(2)
    /\ combined_weight[14] = Float(1)

-----------------------------------------------------------------------------
(* The coverage of the composite, checked under SpecZontem *)

\* a <= b for floats.
RLeq(a, b) == a[1] * b[2] <= b[1] * a[2]

\* C27: the coverage of a composite only grows while stations are folded
\* in.  In every fold of combine_stations a position that holds a value
\* keeps holding one, no weight decreases, and a position that held the
\* sentinel holds a value afterwards only if the folded station holds a
\* value there and its calendar month has at least combine_overlap years
\* in common with the composite.
C27_CoverageOnlyGrows ==
    [][FoldStep =>
          \A i \in 1..Len(combined) :
              /\ valid(combined[i]) => valid(combined'[i])
              /\ RLeq(combined_weight[i], combined_weight'[i])
              /\ (invalid(combined[i]) /\ valid(combined'[i])) =>
                    Contributes(combined, Head(stations_iter), i)]_vars

\* Station B has been seeded and station K, which has one year in common
\* with B, has been folded: the composite still has no value for the first
\* year, where K has data, and has kept the values of B.
C27_Witness ==
    /\ zpc = "combine_zone"
    /\ stations_iter = <<>>
    /\ Len(stations_arg) = 2
    /\ \E k \in 1..2 : stations_arg[k].id = "K"
    /\ \A i \in 1..12 : invalid(combined[i])
    /\ \A i \in 13..Len(combined) : combined[i] = Float(3)

-----------------------------------------------------------------------------
(* The weights of the global fold, checked under SpecZontem *)

\* The positions of the calendar month of position i where the composite c
\* and the series both hold a value.
CommonPositions(c, series, i) ==
    {k \in 1..Len(c) :
        (k - 1) % 12 = (i - 1) % 12 /\ valid(c[k]) /\ HasValue(series, k)}

RECURSIVE SumOver(_, _, _)
SumOver(c, series, S) ==
    IF S = {} THEN Float(0)
    ELSE LET k == CHOOSE x \in S : TRUE
         IN  RAdd(RSub(c[k], series[k]), SumOver(c, series, S \ {k}))

\* The mean of composite - series over the common positions of the
\* calendar month of position i.
MeanOffset(c, series, i) ==
    RDiv(SumOver(c, series, CommonPositions(c, series, i)),
         Float(Cardinality(CommonPositions(c, series, i))))

\* The average of the composite datum with its weight and the datum of the
\* series, moved by the mean offset, with weight 1.
AverageWithOne(c, w, series, i) ==
    RDiv(RAdd(RMul(w[i], c[i]), RAdd(series[i], MeanOffset(c, series, i))),
         RAdd(w[i], Float(1)))

\* C28: in the global fold every zonal composite counts with weight 1 at
\* each position, whatever went into it.  The global composite is seeded
\* with a zonal composite and weight 1 where that holds a value, 0
\* elsewhere; every other zonal composite is averaged in with weight 1
\* against the weight the global composite has, which grows by 1 where the
\* zonal composite contributes, so that the global weight is the number of
\* zonal composites that contributed.
C28_GlobalFoldWeighsZonesAlike ==
    [][/\ (zpc = "global" /\ zpc' = "combine_global") =>
              /\ \E j \in 1..Len(zonal_average) :
                    combined' = assign_prefix(missing_list(max_series_length),
                                              zonal_average[j].series)
              /\ \A i \in 1..Len(combined') :
                    combined_weight'[i] =
                        IF valid(combined'[i]) THEN Float(1) ELSE Float(0)
       /\ (zpc = "combine_global" /\ FoldStep) =>
              \A i \in 1..Len(combined) :
                  IF Contributes(combined, Head(stations_iter), i)
                  THEN /\ combined_weight'[i] = RAdd(combined_weight[i], Float(1))
                       /\ combined'[i] =
                             AverageWithOne(combined, combined_weight,
                                            Head(stations_iter).series, i)
                  ELSE /\ combined_weight'[i] = combined_weight[i]
                       /\ combined'[i] = combined[i]]_vars

\* The global fold of three zonal composites is over: two of them
\* contributed at some position and one alone at another.
C28_Witness ==
    /\ zpc = "combine_global"
    /\ stations_iter = <<>>
    /\ Len(zonal_average) = 3
    /\ \E i \in 1..Len(combined_weight) : combined_weight[i] = Float(2)
    /\ \E i \in 1..Len(combined_weight) : combined_weight[i] = Float(1)

-----------------------------------------------------------------------------
(* split as a partition of its input, checked under SpecSplit *)

\* The number of stations in the zones j..n_zones (counted from 1).
RECURSIVE ZoneSizes(_)
ZoneSizes(j) ==
    IF j > Len(zone) THEN 0 ELSE Len(zone[j]) + ZoneSizes(j + 1)

\* How often the station occurs in all the zones together.
TimesInZones(station) ==
    Cardinality({jp \in {<<j, p>> : j \in 1..Len(zone), p \in 1..MaxSplitStations} :
                    /\ jp[2] <= Len(zone[jp[1]])
                    /\ zone[jp[1]][jp[2]] = station})

\* The place in the input of the station at place p of zone j.
PlaceOf(j, p) == CHOOSE k \in 1..Len(input) : input[k] = zone[j][p]

\* C29: split partitions its input.  Every station it has consumed is in
\* the zones exactly once and no other station is, so the sizes of the
\* zones add up to the number of stations consumed (all of the input when
\* split returns), and the stations of a zone stand in the order of the
\* input.
C29_SplitPartitions ==
    /\ zpc # "raised"
    /\ zpc \in {"split", "map"} =>
          /\ \A k \in 1..Len(input) :
                TimesInZones(input[k]) = IF k <= split_i THEN 1 ELSE 0
          /\ ZoneSizes(1) = split_i
          /\ zpc = "map" => ZoneSizes(1) = Len(input)
          /\ \A j \in 1..Len(zone) :
                /\ \A p \in 1..Len(zone[j]) :
                      \E k \in 1..Len(input) : input[k] = zone[j][p]
                /\ \A p, q \in 1..Len(zone[j]) :
                      p < q => PlaceOf(j, p) < PlaceOf(j, q)

\* split has returned with two stations in one zone of several, in the
\* order of the input, which is not that of their latitudes.
C29_Witness ==
    /\ zpc = "map"
    /\ n_zones > 1
    /\ Len(input) = 2
    /\ input[1].latitude > input[2].latitude
    /\ \E j \in 1..Len(zone) : zone[j] = <<input[1], input[2]>>

-----------------------------------------------------------------------------
(* A failed add_year, checked under SpecSeries *)

\* C30: an add_year call that ends by its assertion on the order of the
\* years leaves the series as it was before the call: no padding and no
\* data are appended, first_month (and with it first_year) and the cached
\* count are unchanged, the series still holds a whole number of years,
\* and add_year(last_year + 1, data) on the series it leaves returns
\* normally with data appended.
C30_FailedAddYearChangesNothing ==
    [][(AddYearStep /\ series_exc' = "AssertionError") =>
           /\ SeriesUnchanged
           /\ _good_count' = _good_count
           /\ first_year(self') = first_year(self)
           /\ Len(_series') % 12 = 0
           /\ \A data \in YearData :
                 /\ add_year(self', last_year(self') + 1, data).exc = "none"
                 /\ add_year(self', last_year(self') + 1, data).self._series =
                        _series \o data]_vars

\* add_year has failed for the year that was the last one already, on a
\* series of two years of which the first is a gap filled with sentinels;
\* a further call can still be made.
C30_Witness ==
    /\ series_op = "add_year"
    /\ series_exc = "AssertionError"
    /\ series_year = last_year(self)
    /\ series_calls < MaxCalls
    /\ Len(_series) = 24
    /\ \A m \in 1..12 : _series[m] = Float(MISSING)

====
